---- MODULE Spec2Model ----
(***************************************************************************)
(* The data-callback validation endpoint of the smart-wallet playground:   *)
(* the POST handler of src/app/api/data-callback/route.ts and the POST     *)
(* handler of src/unnamed/part_001 (the variant "based on the              *)
(* documentation", with the name and phone-number rules and without the    *)
(* required-field checks).  A request body is a JSON value (or a body that *)
(* is not JSON at all); the handlers are evaluated with JavaScript's       *)
(* rules for truthiness, property access and exceptions.                   *)
(***************************************************************************)
EXTENDS Integers, Sequences, FiniteSets, TLC

VARIABLES route, request, response, invocations, clock, nodeEnv
VARIABLES component, isConnected, walletClient, chainId, callbackBaseUrl,
          dataRequests, dataOptional, callbackEnabled, isPending, callsId,
          sendCallsError, handler, logged, walletRequests

(* The state of the DataCallback component and of its environment.         *)
clientVars ==
  <<component, isConnected, walletClient, chainId, callbackBaseUrl,
    dataRequests, dataOptional, callbackEnabled, isPending, callsId,
    sendCallsError, handler, logged, walletRequests>>

(* The state of the endpoint.                                              *)
serverVars == <<route, request, response, invocations, clock, nodeEnv>>

(* The state of the SubAccountManager component: its useState values and   *)
(* the handler invocations waiting on the wallet.                          *)
VARIABLES provider, subAccount, spendPermission, loadingSubAccount,
          loadingSpendPermission, status, subAccountOp, spendOp

subAccountVars ==
  <<provider, subAccount, spendPermission, loadingSubAccount,
    loadingSpendPermission, status, subAccountOp, spendOp>>

(* The state of the PersonalSign component: the message, the state of the  *)
(* useSignMessage mutation, the signing request the wallet holds and the   *)
(* verifyMessage calls that await their result.                            *)
VARIABLES message, signature, signError, isSigningMessage, signRequest,
          verifyCalls

signVars ==
  <<message, signature, signError, isSigningMessage, signRequest, verifyCalls>>

(* The state of ConfigProvider: the applied values, the staged values and  *)
(* hasPendingChanges as the last render computed it.                       *)
VARIABLES appName, appLogoUrl, walletUrl, stagedAppName, stagedAppLogoUrl,
          stagedWalletUrl, hasPendingChanges

configVars ==
  <<appName, appLogoUrl, walletUrl, stagedAppName, stagedAppLogoUrl,
    stagedWalletUrl, hasPendingChanges>>

(* The page: the segments of the path (params.feature), what FeaturePage   *)
(* rendered for them, which of the two SignTypedData sources is built, and *)
(* the domain state of SignTypedData while it is mounted.                  *)
VARIABLES feature, page, variant, domain

appVars == <<configVars, feature, page, variant, domain>>

(* The state of the other pages of the playground.                         *)
pageVars == <<subAccountVars, signVars, appVars>>

(* Everything but the state of one page.                                   *)
notSubAccountVars == <<serverVars, clientVars, signVars, appVars>>

notSignVars == <<serverVars, clientVars, subAccountVars, appVars>>

(* What the pages of the feature registry leave alone: the endpoint, the   *)
(* other components, and the form of DataCallback but for the chain and    *)
(* the handler that ran last.                                              *)
clientButChainId ==
  <<component, isConnected, walletClient, callbackBaseUrl, dataRequests,
    dataOptional, callbackEnabled, isPending, callsId, sendCallsError,
    logged, walletRequests>>

notAppVars == <<serverVars, clientButChainId, subAccountVars, signVars>>

vars == <<serverVars, clientVars, pageVars>>

----------------------------------------------------------------------------
(* Bounds of the enumerated request bodies.                                *)
MaxPostalLen == 5
MaxNameLen == 2
MaxPhoneLen == 10

(* Bounds of the concurrent endpoint: invocations in flight, clock ticks.  *)
MaxInvocations == 2
MaxClock == 1

(* Bound of the wallet of SubAccountManager: the sub accounts it can hand  *)
(* out.                                                                    *)
MaxSubAccounts == 2

(* Thresholds of the validation rules.                                     *)
MinPostalLen == 5
MinNameLen == 2
MinPhoneLen == 10

----------------------------------------------------------------------------
(* JSON values as the handlers see them after request.json().  A missing   *)
(* key reads as undefined; Thrown is the outcome of an expression that     *)
(* raised an exception.                                                    *)
Undefined == [k |-> "undefined"]
Null == [k |-> "null"]
Thrown == [k |-> "throw"]
Num(n) == [k |-> "number", n |-> n]
Str(s) == [k |-> "string", s |-> s]
Arr(items) == [k |-> "array", items |-> items]
Obj(f) == [k |-> "object", f |-> f]

(* A request body that is not JSON: request.json() rejects.                *)
NonJson == [k |-> "nonjson"]

(* `!!v`: JavaScript truthiness.  Arrays and objects are truthy; no       *)
(* boolean occurs in the bodies enumerated below.                          *)
Truthy(v) ==
  CASE v.k = "undefined" -> FALSE
    [] v.k = "null" -> FALSE
    [] v.k = "number" -> v.n # 0
    [] v.k = "string" -> v.s # ""
    [] OTHER -> TRUE

(* Mutant: every property access is optional chaining, `v?.key`.           *)
GetOptionalChaining(v, key) ==
  CASE v.k \in {"undefined", "null", "throw"} -> Undefined
    [] v.k = "object" -> IF key \in DOMAIN v.f THEN v.f[key] ELSE Undefined
    [] v.k = "string" /\ key = "length" -> Num(Len(v.s))
    [] v.k = "array" /\ key = "length" -> Num(Len(v.items))
    [] OTHER -> Undefined

(* `v.key`: TypeError on undefined and null, the own key of an object,     *)
(* `length` of a string or an array, undefined otherwise.  An exception    *)
(* raised while computing v propagates.                                    *)
Get(v, key) ==
  CASE v.k \in {"undefined", "null", "throw"} -> Thrown
    [] v.k = "object" -> IF key \in DOMAIN v.f THEN v.f[key] ELSE Undefined
    [] v.k = "string" /\ key = "length" -> Num(Len(v.s))
    [] v.k = "array" /\ key = "length" -> Num(Len(v.items))
    [] OTHER -> Undefined

(* `v?.key`: undefined instead of a TypeError on undefined and null.       *)
OptGet(v, key) ==
  IF v.k \in {"undefined", "null"} THEN Undefined ELSE Get(v, key)

(* Mutant: equality instead of a suffix test.                              *)
EndsWithWholeString(s, suffix) == s = suffix

(* String.prototype.endsWith.                                              *)
EndsWith(s, suffix) ==
  /\ Len(s) >= Len(suffix)
  /\ SubSeq(s, Len(s) - Len(suffix) + 1, Len(s)) = suffix

(* `v.length < n` for the values a length can take here: a number          *)
(* compares, undefined is NaN and compares false.                          *)
LengthLessThan(v, n) ==
  LET len == Get(v, "length") IN len.k = "number" /\ len.n < n

----------------------------------------------------------------------------
(* The request bodies the wallet host may POST.                            *)
(* A string of n digits, n <= 20.                                          *)
DigitString(n) == SubSeq("12345678901234567890", 1, n)

(* An object literal: keys whose value is undefined are absent.            *)
MkObj(r) == Obj([key \in {x \in DOMAIN r : r[x] # Undefined} |-> r[key]])

Emails ==
  {Undefined, Str(""), Num(5), Str("a@example.com"), Str("@example.com"),
   Str("a@example.org"), Str("a@example.com.au")}

PostalCodes == {Undefined, Num(123)} \cup {Str(DigitString(n)) : n \in 0..MaxPostalLen}

PhysicalAddresses ==
  {Undefined} \cup {MkObj([postalCode |-> p, city |-> Str("SF")]) : p \in PostalCodes}

Names ==
  {Undefined} \cup
  {MkObj([firstName |-> Str(DigitString(n)), familyName |-> Str("Doe")]) : n \in 0..MaxNameLen}

PhoneNumbers ==
  {Undefined} \cup
  {MkObj([number |-> Str(DigitString(n)), country |-> Str("US")]) :
     n \in {0} \cup (MinPhoneLen - 1)..MaxPhoneLen}

OnchainAddresses == {Undefined, Str("0xabc")}

RequestedInfos ==
  {Undefined, Null} \cup
  {MkObj([email |-> e, physicalAddress |-> pa, name |-> nm, phoneNumber |-> ph,
          onchainAddress |-> oa]) :
     e \in Emails, pa \in PhysicalAddresses, nm \in Names, ph \in PhoneNumbers,
     oa \in OnchainAddresses}

DataCallbacks ==
  {Undefined, Null, Num(0)} \cup {MkObj([requestedInfo |-> ri]) : ri \in RequestedInfos}

PaymasterServices == {Undefined, MkObj([url |-> Str("https://paymaster.example")])}

Capabilities ==
  {Undefined, Null} \cup
  {MkObj([dataCallback |-> dc, paymasterService |-> pm]) :
     dc \in DataCallbacks, pm \in PaymasterServices}

Calls == {Undefined, Arr(<<MkObj([to |-> Str("0xdead"), data |-> Str("0x")])>>)}
ChainIds == {Undefined, Str(""), Str("0x2105")}
Versions == {Undefined, Str("1.0")}

Bodies ==
  {NonJson, Null, Num(5)} \cup
  {MkObj([calls |-> c, chainId |-> ch, version |-> v, capabilities |-> cap]) :
     c \in Calls, ch \in ChainIds, v \in Versions, cap \in Capabilities}

----------------------------------------------------------------------------
(* Responses.                                                              *)
NoResponse == [status |-> 0, headers |-> <<>>, body |-> Undefined]

(* JSON.stringify of an object: a key whose value is undefined is omitted. *)
JsonStringify(f) == Obj([key \in {x \in DOMAIN f : f[x] # Undefined} |-> f[key]])

(* Mutant: an error body answered with status 400.                         *)
ResponseJsonErrorStatus(f) ==
  [status |-> IF "errors" \in DOMAIN f THEN 400 ELSE 200,
   headers |-> ("Content-Type" :> "application/json"),
   body |-> JsonStringify(f)]

(* Response.json(data): status 200 and the serialised body.                *)
ResponseJson(f) ==
  [status |-> 200,
   headers |-> ("Content-Type" :> "application/json"),
   body |-> JsonStringify(f)]

(* Mutant: Access-Control-Allow-Headers is not set.                        *)
addCorsHeadersWithoutAllowHeaders(resp) ==
  [resp EXCEPT !.headers =
     ("Access-Control-Allow-Origin" :> "*") @@
     ("Access-Control-Allow-Methods" :> "GET, POST, OPTIONS") @@ @]

(* route.ts, addCorsHeaders.                                               *)
addCorsHeaders(resp) ==
  [resp EXCEPT !.headers =
     ("Access-Control-Allow-Origin" :> "*") @@
     ("Access-Control-Allow-Methods" :> "GET, POST, OPTIONS") @@
     ("Access-Control-Allow-Headers" :> "Content-Type, Authorization") @@ @]

(* `await request.json()`.                                                 *)
RequestJson(raw) == IF raw = NonJson THEN Thrown ELSE raw

(* Mutant: capabilities rebuilt from the dataCallback capability alone.    *)
SuccessBodyRebuilt(requestData) ==
  [calls |-> Get(requestData, "calls"),
   chainId |-> Get(requestData, "chainId"),
   version |-> Get(requestData, "version"),
   capabilities |->
     Obj("dataCallback" :> Get(Get(requestData, "capabilities"), "dataCallback"))]

(* The body of a success response: the four fields of the request.         *)
SuccessBody(requestData) ==
  [calls |-> Get(requestData, "calls"),
   chainId |-> Get(requestData, "chainId"),
   version |-> Get(requestData, "version"),
   capabilities |-> Get(requestData, "capabilities")]

(* What the client receives when a handler lets an exception escape.      *)
Unhandled == [status |-> 500, headers |-> <<>>, body |-> Undefined]

(* Mutant: no catch clause, the exception escapes.                         *)
TryCatchRethrow(outcome, caught) == IF outcome = Thrown THEN Unhandled ELSE outcome

(* `try { ... } catch (error) { ... }`: an exception raised in the block   *)
(* is replaced by the result of the catch clause.                          *)
TryCatch(outcome, caught) == IF outcome = Thrown THEN caught ELSE outcome

(* Mutant: only a null requestedInfo counts as absent.                     *)
NothingToValidateNullOnly(requestedInfo) == requestedInfo = Null

(* `if (!requestedInfo)`: nothing to validate.                             *)
NothingToValidate(requestedInfo) == ~Truthy(requestedInfo)

(* `if (email && email.endsWith('@example.com'))`: TypeError when a truthy *)
(* email has no endsWith method.                                           *)
EmailThrows(requestedInfo) ==
  LET email == Get(requestedInfo, "email") IN Truthy(email) /\ email.k # "string"

EmailErrors(requestedInfo) ==
  LET email == Get(requestedInfo, "email") IN
  IF Truthy(email) /\ email.k = "string" /\ EndsWith(email.s, "@example.com")
  THEN "email" :> Str("Example.com emails are not allowed")
  ELSE <<>>

PhysicalAddressErrors(requestedInfo) ==
  LET addr == Get(requestedInfo, "physicalAddress") IN
  IF /\ Truthy(addr)
     /\ Truthy(Get(addr, "postalCode"))
     /\ LengthLessThan(Get(addr, "postalCode"), MinPostalLen)
  THEN "physicalAddress" :> Obj("postalCode" :> Str("Invalid postal code"))
  ELSE <<>>

(* route.ts, lines 66-104: the field rules and the two results.            *)
ValidateFields(requestData, requestedInfo) ==
  IF EmailThrows(requestedInfo) THEN Thrown
  ELSE LET errors == EmailErrors(requestedInfo) @@ PhysicalAddressErrors(requestedInfo) IN
       IF Cardinality(DOMAIN errors) > 0
       THEN addCorsHeaders(ResponseJson([errors |-> Obj(errors)]))
       ELSE addCorsHeaders(ResponseJson(SuccessBody(requestData)))

(* Mutant: the field rules run before the structural checks.              *)
TryBlockFieldsFirst(raw) ==
  LET requestData == RequestJson(raw)
      requestedInfo ==
        OptGet(OptGet(OptGet(requestData, "capabilities"), "dataCallback"),
               "requestedInfo") IN
  IF requestData = Thrown \/ Get(requestData, "calls") = Thrown THEN Thrown
  ELSE IF Truthy(requestedInfo) THEN ValidateFields(requestData, requestedInfo)
  ELSE IF \/ ~Truthy(Get(requestData, "calls"))
          \/ ~Truthy(Get(requestData, "chainId"))
          \/ ~Truthy(Get(requestData, "version"))
  THEN addCorsHeaders(ResponseJson([errors |-> Obj("server" :> Str("Missing required fields"))]))
  ELSE IF ~Truthy(OptGet(Get(requestData, "capabilities"), "dataCallback"))
  THEN addCorsHeaders(ResponseJson([errors |-> Obj("server" :> Str("Missing dataCallback capability"))]))
  ELSE addCorsHeaders(ResponseJson(SuccessBody(requestData)))

(* route.ts, lines 21-104: the try block of POST.                          *)
TryBlock(raw) ==
  LET requestData == RequestJson(raw) IN
  IF requestData = Thrown \/ Get(requestData, "calls") = Thrown THEN Thrown
  ELSE IF \/ ~Truthy(Get(requestData, "calls"))
          \/ ~Truthy(Get(requestData, "chainId"))
          \/ ~Truthy(Get(requestData, "version"))
  THEN addCorsHeaders(ResponseJson([errors |-> Obj("server" :> Str("Missing required fields"))]))
  ELSE IF ~Truthy(OptGet(Get(requestData, "capabilities"), "dataCallback"))
  THEN addCorsHeaders(ResponseJson([errors |-> Obj("server" :> Str("Missing dataCallback capability"))]))
  ELSE LET requestedInfo ==
             Get(Get(Get(requestData, "capabilities"), "dataCallback"), "requestedInfo") IN
       IF NothingToValidate(requestedInfo)
       THEN addCorsHeaders(ResponseJson(SuccessBody(requestData)))
       ELSE ValidateFields(requestData, requestedInfo)

(* Mutant: the catch clause reports the message of the required-field     *)
(* check.                                                                  *)
CatchClauseWrongMessage ==
  addCorsHeaders(ResponseJson([errors |-> Obj("server" :> Str("Missing required fields"))]))

(* route.ts, lines 105-116: the catch clause of POST.                      *)
CatchClause ==
  addCorsHeaders(ResponseJson([errors |-> Obj("server" :> Str("Server error validating data"))]))

(* route.ts, POST.                                                         *)
HandlePOST(raw) == TryCatch(TryBlock(raw), CatchClause)

----------------------------------------------------------------------------
(* part_001: the variant of the endpoint with the name and phone rules.    *)
NameErrors(requestedInfo) ==
  LET name == Get(requestedInfo, "name") IN
  IF /\ Truthy(name)
     /\ Truthy(Get(name, "firstName"))
     /\ LengthLessThan(Get(name, "firstName"), MinNameLen)
  THEN "name" :> Obj("firstName" :> Str("First name too short"))
  ELSE <<>>

PhoneNumberErrors(requestedInfo) ==
  LET phoneNumber == Get(requestedInfo, "phoneNumber") IN
  IF /\ Truthy(phoneNumber)
     /\ Truthy(Get(phoneNumber, "number"))
     /\ LengthLessThan(Get(phoneNumber, "number"), MinPhoneLen)
  THEN "phoneNumber" :> Obj("number" :> Str("Invalid phone number"))
  ELSE <<>>

(* One rule of part_001 applied to the errors collected so far: the email  *)
(* rule may throw, every rule writes the entry of its own field only.      *)
ApplyRule(rule, requestedInfo, errors) ==
  CASE rule = "email" ->
         IF EmailThrows(requestedInfo) THEN Thrown ELSE EmailErrors(requestedInfo) @@ errors
    [] rule = "postalCode" -> PhysicalAddressErrors(requestedInfo) @@ errors
    [] rule = "firstName" -> NameErrors(requestedInfo) @@ errors
    [] rule = "number" -> PhoneNumberErrors(requestedInfo) @@ errors

(* The rules applied one after the other in the given order; an exception  *)
(* ends the evaluation.                                                    *)
RECURSIVE ApplyRules(_, _, _)
ApplyRules(order, requestedInfo, errors) ==
  IF order = <<>> THEN errors
  ELSE LET next == ApplyRule(Head(order), requestedInfo, errors) IN
       IF next = Thrown THEN Thrown ELSE ApplyRules(Tail(order), requestedInfo, next)

(* part_001, lines 110-160: the field rules and the two results.           *)
ValidateFieldsDocs(requestData, requestedInfo) ==
  IF EmailThrows(requestedInfo) THEN Thrown
  ELSE LET errors == EmailErrors(requestedInfo) @@ PhysicalAddressErrors(requestedInfo)
                     @@ NameErrors(requestedInfo) @@ PhoneNumberErrors(requestedInfo) IN
       IF Cardinality(DOMAIN errors) > 0
       THEN ResponseJson([errors |-> Obj(errors)])
       ELSE ResponseJson(SuccessBody(requestData))

(* part_001, lines 84-160: the try block of POST.  Destructuring           *)
(* `const { requestedInfo } = dataCallback` throws on undefined and null.  *)
TryBlockDocs(raw) ==
  LET requestData == RequestJson(raw)
      requestedInfo ==
        Get(Get(Get(requestData, "capabilities"), "dataCallback"), "requestedInfo") IN
  IF requestedInfo = Thrown THEN Thrown
  ELSE IF NothingToValidate(requestedInfo) THEN ResponseJson(SuccessBody(requestData))
  ELSE ValidateFieldsDocs(requestData, requestedInfo)

(* part_001, lines 161-167: the catch clause of POST.                      *)
CatchClauseDocs ==
  ResponseJson([errors |-> Obj("server" :> Str("Server error validating data"))])

(* part_001, POST.                                                         *)
HandlePOSTDocs(raw) == TryCatch(TryBlockDocs(raw), CatchClauseDocs)

----------------------------------------------------------------------------
(* The DataCallback component (src/app/components/DataCallback.tsx and the *)
(* variant src/unnamed/part_006) as it is mounted.                         *)
(* The keys of dataRequests and dataOptional, in insertion order.          *)
Fields == <<"email", "physicalAddress", "onchainAddress", "phoneNumber", "name">>

FieldSet == {Fields[i] : i \in 1..Len(Fields)}

(* The useState initial values.                                            *)
UseState ==
  /\ dataRequests = [email |-> TRUE, physicalAddress |-> TRUE,
                     onchainAddress |-> FALSE, phoneNumber |-> FALSE,
                     name |-> FALSE]
  /\ dataOptional = [email |-> TRUE, physicalAddress |-> TRUE,
                     onchainAddress |-> FALSE, phoneNumber |-> FALSE,
                     name |-> FALSE]
  /\ callbackEnabled = FALSE
  /\ isPending = FALSE
  /\ callsId = Null
  /\ sendCallsError = Null

(* No handler has run: nothing logged, nothing handed to the wallet.       *)
Mounted ==
  /\ UseState
  /\ handler = "mount"
  /\ logged = <<>>
  /\ walletRequests = <<>>

(* The page before hydration: no account, no wallet client, no chain.      *)
NotHydrated ==
  /\ component = "DataCallback.tsx"
  /\ isConnected = FALSE
  /\ walletClient = Undefined
  /\ chainId = Undefined
  /\ callbackBaseUrl = Undefined
  /\ Mounted

(* No handler invocation is waiting on the wallet.                         *)
NoOp == [name |-> "none", pc |-> "idle", newSubAccount |-> Null]

(* SubAccountManager (src/unnamed/part_009), the useState initial values.  *)
SubAccountManagerMounted ==
  /\ provider = Null
  /\ subAccount = Null
  /\ spendPermission = Null
  /\ loadingSubAccount = FALSE
  /\ loadingSpendPermission = FALSE
  /\ status = ""
  /\ subAccountOp = NoOp
  /\ spendOp = NoOp

(* PersonalSign (src/unnamed/part_002), the useState initial value and the *)
(* idle mutation.                                                          *)
PersonalSignMounted ==
  /\ message = "hello world"
  /\ signature = Undefined
  /\ signError = Null
  /\ isSigningMessage = FALSE
  /\ signRequest = Undefined
  /\ verifyCalls = {}

(* ConfigProvider, the useState initial values.                            *)
ConfigProviderMounted ==
  /\ appName = "Smart Wallet Playground"
  /\ appLogoUrl = "/favicon.ico"
  /\ walletUrl = "https://keys.coinbase.com/connect"
  /\ stagedAppName = "Smart Wallet Playground"
  /\ stagedAppLogoUrl = "/favicon.ico"
  /\ stagedWalletUrl = "https://keys.coinbase.com/connect"
  /\ hasPendingChanges = FALSE

(* No feature page has been requested: SignTypedData is not mounted.       *)
NoFeaturePage ==
  /\ feature = <<>>
  /\ page = "none"
  /\ variant = "part_008"
  /\ domain = Undefined

(* The other pages as they are mounted.                                    *)
PagesMounted ==
  /\ SubAccountManagerMounted
  /\ PersonalSignMounted
  /\ ConfigProviderMounted
  /\ NoFeaturePage

----------------------------------------------------------------------------
(* The state machine: one callback request in flight to one of the two     *)
(* endpoints; the handler answers it.                                      *)
Routes == {"route.ts", "part_001"}

Init ==
  /\ route \in Routes
  /\ request \in Bodies
  /\ response = NoResponse
  /\ invocations = <<>>
  /\ clock = 0
  /\ nodeEnv = Undefined
  /\ NotHydrated
  /\ PagesMounted

(* route.ts, POST.                                                         *)
POST ==
  /\ route = "route.ts"
  /\ response = NoResponse
  /\ response' = HandlePOST(request)
  /\ UNCHANGED <<route, request, invocations, clock, nodeEnv>>
  /\ UNCHANGED <<clientVars, pageVars>>

(* part_001, POST.                                                         *)
POSTDocs ==
  /\ route = "part_001"
  /\ response = NoResponse
  /\ response' = HandlePOSTDocs(request)
  /\ UNCHANGED <<route, request, invocations, clock, nodeEnv>>
  /\ UNCHANGED <<clientVars, pageVars>>

Next == POST \/ POSTDocs

Spec == Init /\ [][Next]_vars

----------------------------------------------------------------------------
(* The endpoint under concurrent load: MaxInvocations requests in flight,  *)
(* each handled by its own invocation of POST, GET or OPTIONS.  A POST     *)
(* suspends once, at `await request.json()`; other invocations may run in  *)
(* between.                                                                *)
Origins == {"https://keys.coinbase.com", "https://wallet.example"}

(* `new Date().toISOString()` at clock value now (now < 10).               *)
ToISOString(now) == "1970-01-01T00:00:0" \o ToString(now) \o ".000Z"

(* Mutant: the liveness payload without its timestamp.                     *)
HandleGETNoTimestamp(now, env) ==
  addCorsHeaders(ResponseJson(
    [message |-> Str("Data callback endpoint is active"),
     environment |-> IF Truthy(env) THEN env ELSE Str("development")]))

(* route.ts, GET.                                                          *)
HandleGET(now, env) ==
  addCorsHeaders(ResponseJson(
    [message |-> Str("Data callback endpoint is active"),
     timestamp |-> Str(ToISOString(now)),
     environment |-> IF Truthy(env) THEN env ELSE Str("development")]))

(* part_001, GET.                                                          *)
HandleGETDocs(now) ==
  ResponseJson(
    [message |-> Str("Data callback endpoint is active"),
     timestamp |-> Str(ToISOString(now)),
     status |-> Str("healthy")])

(* Mutant: the preflight answer without the CORS headers.                  *)
HandleOPTIONSBare == [status |-> 200, headers |-> <<>>, body |-> Null]

(* route.ts, OPTIONS: `new Response(null, { status: 200 })`.               *)
HandleOPTIONS == addCorsHeaders([status |-> 200, headers |-> <<>>, body |-> Null])

(* Requests of the concurrent runs: a body that is not JSON, the body      *)
(* null, a valid request, a rejected email, a throwing email and a body    *)
(* without calls.                                                          *)
SampleRequestedInfos ==
  {MkObj([onchainAddress |-> Str("0xabc")]),
   MkObj([email |-> Str("a@example.com")]),
   MkObj([email |-> Num(5)])}

SampleBodies ==
  {NonJson, Null,
   MkObj([chainId |-> Str("0x2105"), version |-> Str("1.0"),
          capabilities |-> MkObj([dataCallback |-> Obj(<<>>)])])} \cup
  {MkObj([calls |-> Arr(<<MkObj([to |-> Str("0xdead"), data |-> Str("0x")])>>),
          chainId |-> Str("0x2105"), version |-> Str("1.0"),
          capabilities |-> MkObj([dataCallback |-> MkObj([requestedInfo |-> ri])])]) :
     ri \in SampleRequestedInfos}

Invocation(method, rt, origin, body) ==
  [method |-> method, route |-> rt, origin |-> origin, request |-> body,
   pc |-> "received", requestData |-> Undefined, response |-> NoResponse]

ReceivedInvocations ==
  {Invocation("POST", rt, "https://keys.coinbase.com", body) :
     rt \in Routes, body \in SampleBodies} \cup
  {Invocation("GET", rt, "https://keys.coinbase.com", Undefined) : rt \in Routes} \cup
  {Invocation("OPTIONS", "route.ts", origin, Undefined) : origin \in Origins}

InitServer ==
  /\ route = "route.ts"
  /\ request = Undefined
  /\ response = NoResponse
  /\ invocations \in [1..MaxInvocations -> ReceivedInvocations]
  /\ clock = 0
  /\ nodeEnv \in {Undefined, Str("production")}
  /\ NotHydrated
  /\ PagesMounted

(* Mutant: requestData kept in one variable of the module, shared by all   *)
(* invocations.                                                            *)
RequestDataShared(i) == invocations[1].requestData

(* `const requestData` of invocation i.                                    *)
RequestDataOf(i) == invocations[i].requestData

(* POST up to `await request.json()`: the body is read and parsed.         *)
ReceiveJson(i) ==
  /\ invocations[i].method = "POST"
  /\ invocations[i].pc = "received"
  /\ invocations' = [invocations EXCEPT
        ![i].pc = "parsed",
        ![i].requestData = RequestJson(invocations[i].request)]
  /\ UNCHANGED <<route, request, response, clock, nodeEnv>>
  /\ UNCHANGED <<clientVars, pageVars>>

(* POST after `await request.json()`: the checks and the response.  The    *)
(* body was parsed in ReceiveJson; a rejected parse reaches the catch      *)
(* clause here.                                                            *)
RespondPOST(i) ==
  /\ invocations[i].method = "POST"
  /\ invocations[i].pc = "parsed"
  /\ invocations' = [invocations EXCEPT
        ![i].pc = "responded",
        ![i].response = IF invocations[i].route = "route.ts"
                        THEN HandlePOST(RequestDataOf(i))
                        ELSE HandlePOSTDocs(RequestDataOf(i))]
  /\ UNCHANGED <<route, request, response, clock, nodeEnv>>
  /\ UNCHANGED <<clientVars, pageVars>>

(* route.ts and part_001, GET.                                             *)
GET(i) ==
  /\ invocations[i].method = "GET"
  /\ invocations[i].pc = "received"
  /\ invocations' = [invocations EXCEPT
        ![i].pc = "responded",
        ![i].response = IF invocations[i].route = "route.ts"
                        THEN HandleGET(clock, nodeEnv)
                        ELSE HandleGETDocs(clock)]
  /\ UNCHANGED <<route, request, response, clock, nodeEnv>>
  /\ UNCHANGED <<clientVars, pageVars>>

(* route.ts, OPTIONS.                                                      *)
OPTIONS(i) ==
  /\ invocations[i].method = "OPTIONS"
  /\ invocations[i].pc = "received"
  /\ invocations' = [invocations EXCEPT
        ![i].pc = "responded",
        ![i].response = HandleOPTIONS]
  /\ UNCHANGED <<route, request, response, clock, nodeEnv>>
  /\ UNCHANGED <<clientVars, pageVars>>

(* Time passes.                                                            *)
Tick ==
  /\ clock < MaxClock
  /\ clock' = clock + 1
  /\ UNCHANGED <<route, request, response, invocations, nodeEnv>>
  /\ UNCHANGED <<clientVars, pageVars>>

NextServer ==
  \/ \E i \in 1..MaxInvocations : ReceiveJson(i)
  \/ \E i \in 1..MaxInvocations : RespondPOST(i)
  \/ \E i \in 1..MaxInvocations : GET(i)
  \/ \E i \in 1..MaxInvocations : OPTIONS(i)
  \/ Tick

SpecServer == InitServer /\ [][NextServer]_vars

----------------------------------------------------------------------------
(* Reading requests and responses in the properties below.                 *)

(* The value at a path of keys, undefined when a key on the way is absent. *)
RECURSIVE At(_, _)
At(v, path) ==
  IF path = <<>> THEN v
  ELSE IF v.k = "object" /\ Head(path) \in DOMAIN v.f
       THEN At(v.f[Head(path)], Tail(path))
       ELSE Undefined

Has(v, path) == At(v, path) # Undefined

Responded == response # NoResponse

EchoKeys == {"calls", "chainId", "version", "capabilities"}

TopLevelKeys(resp) == IF resp.body.k = "object" THEN DOMAIN resp.body.f ELSE {}

RequestedInfoOf(req) == At(req, <<"capabilities", "dataCallback", "requestedInfo">>)

(* An error response: a non-empty errors map and no key of the echo.       *)
IsErrorResponse(resp) ==
  /\ "errors" \in TopLevelKeys(resp)
  /\ At(resp.body, <<"errors">>).k = "object"
  /\ DOMAIN At(resp.body, <<"errors">>).f # {}
  /\ TopLevelKeys(resp) \cap EchoKeys = {}

(* A success response: the four keys of the echo, each equal to the        *)
(* request's, and no errors key.                                           *)
IsSuccessEcho(resp, req) ==
  /\ TopLevelKeys(resp) = EchoKeys
  /\ \A key \in EchoKeys : Has(req, <<key>>) /\ At(resp.body, <<key>>) = At(req, <<key>>)

(* calls, chainId and version are present (and not empty).                 *)
RequiredFieldsPresent(req) ==
  /\ Truthy(At(req, <<"calls">>))
  /\ Truthy(At(req, <<"chainId">>))
  /\ Truthy(At(req, <<"version">>))

DataCallbackPresent(req) == Truthy(At(req, <<"capabilities", "dataCallback">>))

IsShortString(v, n) == v.k = "string" /\ Len(v.s) < n

(* s is some prefix followed by suffix.                                     *)
HasSuffix(s, suffix) == \E n \in 0..Len(s) : SubSeq(s, n + 1, Len(s)) = suffix

EmailRuleViolated(req) ==
  LET email == At(RequestedInfoOf(req), <<"email">>) IN
  email.k = "string" /\ HasSuffix(email.s, "@example.com")

PostalRuleViolated(req) ==
  IsShortString(At(RequestedInfoOf(req), <<"physicalAddress", "postalCode">>), 5)

NameRuleViolated(req) ==
  IsShortString(At(RequestedInfoOf(req), <<"name", "firstName">>), 2)

PhoneRuleViolated(req) ==
  IsShortString(At(RequestedInfoOf(req), <<"phoneNumber", "number">>), 10)

(* The field rules an endpoint enforces and the error entry of each.       *)
FieldRules(rt) ==
  IF rt = "part_001" THEN {"email", "postalCode", "firstName", "number"}
  ELSE {"email", "postalCode"}

RuleViolated(rule, req) ==
  CASE rule = "email" -> EmailRuleViolated(req)
    [] rule = "postalCode" -> PostalRuleViolated(req)
    [] rule = "firstName" -> NameRuleViolated(req)
    [] rule = "number" -> PhoneRuleViolated(req)

RuleEntry(rule) ==
  CASE rule = "email" -> <<"errors", "email">>
    [] rule = "postalCode" -> <<"errors", "physicalAddress", "postalCode">>
    [] rule = "firstName" -> <<"errors", "name", "firstName">>
    [] rule = "number" -> <<"errors", "phoneNumber", "number">>

EmailMessage == Str("Example.com emails are not allowed")
PostalMessage == Str("Invalid postal code")

----------------------------------------------------------------------------
(* C1: every response of POST is either an error response (a non-empty     *)
(* errors map and none of calls, chainId, version, capabilities) or a      *)
(* success response echoing all four of them with no errors key; never a   *)
(* mix and never part of the echo.                                         *)
C1_ErrorOrEcho ==
  Responded => (IsErrorResponse(response) \/ IsSuccessEcho(response, request))

(* C2: whenever the requested-info email ends with @example.com, the       *)
(* response contains errors.email with its message and no top-level calls  *)
(* key.                                                                    *)
C2_ExampleEmailRejected ==
  (Responded /\ EmailRuleViolated(request)) =>
    /\ At(response.body, <<"errors", "email">>) = EmailMessage
    /\ "calls" \notin TopLevelKeys(response)

(* C2 as amended: whenever the requested-info email ends with              *)
(* @example.com, the response has no top-level calls key, and it contains  *)
(* errors.email with its message unless route.ts rejects the request for a *)
(* missing calls, chainId or version, in which case errors is              *)
(* {server: "Missing required fields"}.                                    *)
C2_ExampleEmailRejectedUnlessStructural ==
  (Responded /\ EmailRuleViolated(request)) =>
    /\ "calls" \notin TopLevelKeys(response)
    /\ IF route = "route.ts" /\ ~RequiredFieldsPresent(request)
       THEN response.body = Obj("errors" :> Obj("server" :> Str("Missing required fields")))
       ELSE At(response.body, <<"errors", "email">>) = EmailMessage

C2_Witness ==
  /\ Responded
  /\ route = "route.ts"
  /\ EmailRuleViolated(request)
  /\ RequiredFieldsPresent(request)
  /\ At(response.body, <<"errors", "email">>) = EmailMessage

(* The request reaches the field rules and no rule throws: calls, chainId, *)
(* version and dataCallback are present and the email, if any, is a        *)
(* string.                                                                 *)
ReachesFieldRules(req) ==
  /\ RequiredFieldsPresent(req)
  /\ DataCallbackPresent(req)
  /\ At(RequestedInfoOf(req), <<"email">>).k \in {"undefined", "string"}

(* C3: whenever physicalAddress.postalCode is a string of length 0 to 4,   *)
(* the response contains errors.physicalAddress.postalCode.  Stated for    *)
(* the requests that reach the postal-code rule, where nothing but the     *)
(* rule decides the entry.                                                 *)
C3_ShortPostalCodeRejected ==
  (Responded /\ ReachesFieldRules(request) /\ PostalRuleViolated(request)) =>
    Has(response.body, <<"errors", "physicalAddress", "postalCode">>)

NoRuleViolated(rt, req) ==
  /\ RequiredFieldsPresent(req)
  /\ DataCallbackPresent(req)
  /\ \A rule \in FieldRules(rt) : ~RuleViolated(rule, req)

EmailOf(req) == At(RequestedInfoOf(req), <<"email">>)

NonStringEmail(req) == Truthy(EmailOf(req)) /\ EmailOf(req).k # "string"

(* C4: a request that violates no validation rule is answered with calls,  *)
(* chainId, version and capabilities equal to the request's and no errors  *)
(* key.                                                                    *)
C4_NoViolationEchoes ==
  (Responded /\ NoRuleViolated(route, request)) => IsSuccessEcho(response, request)

(* C4 as amended: a request that violates no validation rule and whose     *)
(* requestedInfo.email is absent, falsy or a string is answered with       *)
(* calls, chainId, version and capabilities equal to the request's and no  *)
(* errors key.                                                             *)
C4_NoViolationEchoesWellTypedEmail ==
  (Responded /\ NoRuleViolated(route, request) /\ ~NonStringEmail(request)) =>
    IsSuccessEcho(response, request)

(* The scenario of C4: requestedInfo carries only onchainAddress.          *)
C4_Witness ==
  /\ Responded
  /\ RequestedInfoOf(request) = Obj("onchainAddress" :> Str("0xabc"))
  /\ Has(request, <<"capabilities", "paymasterService">>)
  /\ NoRuleViolated(route, request)
  /\ IsSuccessEcho(response, request)

(* C5: the field checks do not short-circuit: for a request that reaches   *)
(* them (and in which no check throws), the errors map has the entry of    *)
(* every violated rule; and the request with email "a@example.com" and     *)
(* postalCode "12" is answered with exactly the two entries of the         *)
(* scenario.                                                               *)
C5_EveryViolationReported ==
  (Responded /\ ReachesFieldRules(request)) =>
    /\ \A rule \in FieldRules(route) :
         RuleViolated(rule, request) => Has(response.body, RuleEntry(rule))
    /\ (/\ EmailOf(request) = Str("a@example.com")
        /\ At(RequestedInfoOf(request), <<"physicalAddress", "postalCode">>) = Str("12")
        /\ DOMAIN RequestedInfoOf(request).f = {"email", "physicalAddress"})
       => response.body =
            Obj("errors" :> Obj(("email" :> EmailMessage) @@
                                ("physicalAddress" :> Obj("postalCode" :> PostalMessage))))

(* C6: a request without capabilities.dataCallback (capabilities absent,   *)
(* or present without the key) is answered with errors.server, and the     *)
(* answer is a response of the handler, not an escaped exception.          *)
C6_MissingDataCallbackIsServerError ==
  (Responded /\ ~Has(request, <<"capabilities", "dataCallback">>)) =>
    /\ response # Unhandled
    /\ IsErrorResponse(response)
    /\ Has(response.body, <<"errors", "server">>)

C6_Witness ==
  /\ Responded
  /\ route = "part_001"
  /\ RequiredFieldsPresent(request)
  /\ At(request, <<"capabilities">>).k = "object"
  /\ ~Has(request, <<"capabilities", "dataCallback">>)
  /\ Has(response.body, <<"errors", "server">>)

(* C7: a body without calls, chainId or version is rejected: the response  *)
(* has errors.server and no key of the echo.                               *)
C7_MissingRequiredFieldRejected ==
  (Responded /\ \E key \in {"calls", "chainId", "version"} : ~Has(request, <<key>>)) =>
    /\ Has(response.body, <<"errors", "server">>)
    /\ TopLevelKeys(response) \cap EchoKeys = {}

(* The response carries no errors key and its calls, chainId, version and  *)
(* capabilities are those of the request.                                  *)
EchoesRequest(resp, req) ==
  /\ "errors" \notin TopLevelKeys(resp)
  /\ \A key \in EchoKeys : At(resp.body, <<key>>) = At(req, <<key>>)

(* C8: dataCallback present and requestedInfo absent is answered with the  *)
(* echo of the request, not with an error.                                 *)
C8_NoRequestedInfoEchoes ==
  (Responded /\ DataCallbackPresent(request) /\ RequestedInfoOf(request) = Undefined) =>
    EchoesRequest(response, request)

(* C8 as amended: calls, chainId and version present, dataCallback present *)
(* and requestedInfo absent is answered with the echo of the request, not  *)
(* with an error.                                                          *)
C8_NoRequestedInfoEchoesWhenRequiredPresent ==
  (/\ Responded
   /\ RequiredFieldsPresent(request)
   /\ DataCallbackPresent(request)
   /\ RequestedInfoOf(request) = Undefined) =>
    EchoesRequest(response, request)

C8_Witness ==
  /\ Responded
  /\ route = "route.ts"
  /\ RequiredFieldsPresent(request)
  /\ At(request, <<"capabilities", "dataCallback">>) = Obj(<<>>)
  /\ EchoesRequest(response, request)
  /\ TopLevelKeys(response) = EchoKeys

ServerErrorBody == Obj("errors" :> Obj("server" :> Str("Server error validating data")))

Raised(rt, raw) ==
  IF rt = "route.ts" THEN TryBlock(raw) = Thrown ELSE TryBlockDocs(raw) = Thrown

(* C9: an exception raised while parsing or validating is answered with    *)
(* {errors: {server: "Server error validating data"}}: a body that is not  *)
(* JSON, the JSON body null and a non-string email reaching the email rule *)
(* are such cases; no response is an escaped exception.                    *)
C9_ExceptionsBecomeServerError ==
  Responded =>
    /\ response # Unhandled
    /\ response.body.k = "object"
    /\ Raised(route, request) => response.body = ServerErrorBody
    /\ (\/ request \in {NonJson, Null}
        \/ (RequiredFieldsPresent(request) /\ NonStringEmail(request)))
       => response.body = ServerErrorBody

C9_Witness ==
  /\ Responded
  /\ route = "route.ts"
  /\ RequiredFieldsPresent(request)
  /\ NonStringEmail(request)
  /\ response.body = ServerErrorBody

(* C10: every outcome of POST has HTTP status 200.                         *)
C10_AlwaysStatus200 == Responded => response.status = 200

C10_Witness ==
  /\ Responded
  /\ request = NonJson
  /\ response.status = 200
  /\ response.body = ServerErrorBody

(* A success response: a response of the handler without an errors key.    *)
IsSuccessResponse(resp) ==
  /\ resp.body.k = "object"
  /\ "errors" \notin TopLevelKeys(resp)

(* C11: every success response carries the dataCallback key inside its     *)
(* echoed capabilities.                                                    *)
C11_SuccessKeepsDataCallbackKey ==
  (Responded /\ IsSuccessResponse(response)) =>
    /\ Has(response.body, <<"capabilities", "dataCallback">>)
    /\ At(response.body, <<"capabilities", "dataCallback">>)
         = At(request, <<"capabilities", "dataCallback">>)

C11_Witness ==
  /\ Responded
  /\ route = "part_001"
  /\ IsSuccessResponse(response)
  /\ RequestedInfoOf(request) = Undefined
  /\ Has(response.body, <<"capabilities", "dataCallback">>)

----------------------------------------------------------------------------
(* Properties of the concurrent endpoint (SpecServer).                     *)
Ids == 1..MaxInvocations

RespondedPOST(i) == invocations[i].method = "POST" /\ invocations[i].pc = "responded"

(* The response of the endpoint to one request handled with no other       *)
(* invocation in flight: what POST and POSTDocs answer in Spec.            *)
RunAlone(rt, body) == IF rt = "route.ts" THEN HandlePOST(body) ELSE HandlePOSTDocs(body)

(* C12: the same body submitted again to the same endpoint is answered     *)
(* with the same response, for a valid request and for any other.          *)
C12_ResubmissionSameResponse ==
  \A i, j \in Ids :
    (/\ RespondedPOST(i) /\ RespondedPOST(j)
     /\ invocations[i].route = invocations[j].route
     /\ invocations[i].request = invocations[j].request)
    => invocations[i].response = invocations[j].response

C12_Witness ==
  \E i, j \in Ids :
    /\ i # j
    /\ RespondedPOST(i) /\ RespondedPOST(j)
    /\ invocations[i].route = invocations[j].route
    /\ invocations[i].request = invocations[j].request
    /\ IsSuccessEcho(invocations[i].response, invocations[i].request)
    /\ invocations[j].response = invocations[i].response

(* A step changes the record of at most one invocation, never the request  *)
(* it carries, and nothing else but the clock.                             *)
OneInvocationStep ==
  /\ \E i \in Ids : \A j \in Ids \ {i} : invocations'[j] = invocations[j]
  /\ \A i \in Ids :
       /\ invocations'[i].method = invocations[i].method
       /\ invocations'[i].route = invocations[i].route
       /\ invocations'[i].origin = invocations[i].origin
       /\ invocations'[i].request = invocations[i].request
       /\ invocations[i].pc = "responded" => invocations'[i] = invocations[i]
  /\ UNCHANGED <<route, request, response, nodeEnv>>
  /\ UNCHANGED <<clientVars, pageVars>>

Header(resp, name) == IF name \in DOMAIN resp.headers THEN resp.headers[name] ELSE ""

(* C19: OPTIONS answers the preflight of any origin with status 200,       *)
(* Access-Control-Allow-Origin * and Access-Control-Allow-Methods          *)
(* GET, POST, OPTIONS.                                                     *)
C19_PreflightAllowsAnyOrigin ==
  \A i \in Ids :
    (invocations[i].method = "OPTIONS" /\ invocations[i].pc = "responded") =>
      /\ invocations[i].response.status = 200
      /\ Header(invocations[i].response, "Access-Control-Allow-Origin") = "*"
      /\ Header(invocations[i].response, "Access-Control-Allow-Methods") = "GET, POST, OPTIONS"

C19_Witness ==
  \E i, j \in Ids :
    /\ invocations[i].method = "OPTIONS" /\ invocations[i].pc = "responded"
    /\ invocations[j].method = "OPTIONS" /\ invocations[j].pc = "responded"
    /\ invocations[i].origin # invocations[j].origin
    /\ Header(invocations[i].response, "Access-Control-Allow-Origin") = "*"

RespondedGET(i) == invocations[i].method = "GET" /\ invocations[i].pc = "responded"

(* The liveness payload of an endpoint apart from its timestamp.           *)
LivenessPayload(rt) ==
  IF rt = "route.ts"
  THEN ("message" :> Str("Data callback endpoint is active")) @@
       ("environment" :> IF nodeEnv = Undefined THEN Str("development") ELSE nodeEnv)
  ELSE ("message" :> Str("Data callback endpoint is active")) @@
       ("status" :> Str("healthy"))

(* C20: GET answers with message and timestamp and no errors; apart from   *)
(* the timestamp the payload is fixed, whatever POST ran before or is in   *)
(* flight; and the step that answers a GET changes nothing but that        *)
(* invocation's own record.                                                *)
C20_GetIsReadOnlyLiveness ==
  /\ [](\A i \in Ids :
          RespondedGET(i) =>
            LET body == invocations[i].response.body IN
            /\ Has(body, <<"message">>)
            /\ Has(body, <<"timestamp">>)
            /\ ~Has(body, <<"errors">>)
            /\ [key \in DOMAIN body.f \ {"timestamp"} |-> body.f[key]]
                 = LivenessPayload(invocations[i].route))
  /\ [][\A i \in Ids :
          (/\ invocations[i].method = "GET"
           /\ invocations[i].pc = "received"
           /\ invocations'[i].pc = "responded")
          => /\ \A j \in Ids \ {i} : invocations'[j] = invocations[j]
             /\ invocations'[i].request = invocations[i].request
             /\ UNCHANGED <<route, request, response, clock, nodeEnv>>]_vars

C20_Witness ==
  \E i, j \in Ids :
    /\ RespondedGET(i)
    /\ Has(invocations[i].response.body, <<"timestamp">>)
    /\ RespondedPOST(j)
    /\ invocations[j].response.body = ServerErrorBody

----------------------------------------------------------------------------
(* The order of the rules in part_001 and every other order.               *)
CodeOrder == <<"email", "postalCode", "firstName", "number">>

RuleOrders ==
  {order \in [1..4 -> FieldRules("part_001")] :
     \A a, b \in 1..4 : order[a] = order[b] => a = b}

(* C14: in part_001 a firstName shorter than 2 yields                      *)
(* errors.name.firstName and a number shorter than 10 yields               *)
(* errors.phoneNumber.number, and the errors map is the one every order of *)
(* the four rules produces.  Stated for the requests whose requestedInfo   *)
(* is an object with a well-typed email, where the rules alone decide.     *)
C14_ExtensionRulesIndependent ==
  LET info == RequestedInfoOf(request) IN
  (/\ Responded
   /\ route = "part_001"
   /\ info.k = "object"
   /\ At(info, <<"email">>).k \in {"undefined", "string"}) =>
    /\ NameRuleViolated(request) => Has(response.body, <<"errors", "name", "firstName">>)
    /\ PhoneRuleViolated(request) => Has(response.body, <<"errors", "phoneNumber", "number">>)
    /\ \A order \in RuleOrders :
         /\ ApplyRules(order, info, <<>>) = ApplyRules(CodeOrder, info, <<>>)
         /\ ApplyRules(order, info, <<>>) # <<>>
              => response.body = Obj("errors" :> Obj(ApplyRules(order, info, <<>>)))

----------------------------------------------------------------------------
(* The request builder of the DataCallback component:                      *)
(* handleSubmitTransaction and the handlers that edit what it reads.       *)
Components == {"DataCallback.tsx", "part_006"}

Bool(b) == [k |-> "boolean", b |-> b]

CHAIN_TO_USDC_ADDRESS ==
  (8453 :> "0x833589fCD6eDb6E08f4c7C32D4f71b54bdA02913") @@
  (84532 :> "0x036CbD53842c5426634e7929541eC2318f3dCF7e")

CHAIN_NAMES == (8453 :> "Base") @@ (84532 :> "Base Sepolia")

(* The chains the wallet may be on: Base, Base Sepolia, Ethereum.          *)
WalletChains == {8453, 84532, 1}

TEST_CASES ==
  <<[name |-> "Test Case #1",
     data |-> [email |-> TRUE, physicalAddress |-> FALSE, onchainAddress |-> TRUE,
               phoneNumber |-> FALSE, name |-> TRUE]],
    [name |-> "Test Case #2",
     data |-> [email |-> TRUE, physicalAddress |-> TRUE, onchainAddress |-> FALSE,
               phoneNumber |-> TRUE, name |-> FALSE]],
    [name |-> "Test Case #3",
     data |-> [email |-> FALSE, physicalAddress |-> TRUE, onchainAddress |-> TRUE,
               phoneNumber |-> TRUE, name |-> TRUE]],
    [name |-> "Test Case #4",
     data |-> [email |-> TRUE, physicalAddress |-> TRUE, onchainAddress |-> TRUE,
               phoneNumber |-> TRUE, name |-> TRUE]],
    [name |-> "Test Case #5",
     data |-> [email |-> FALSE, physicalAddress |-> FALSE, onchainAddress |-> TRUE,
               phoneNumber |-> FALSE, name |-> FALSE]],
    [name |-> "Test Case #6",
     data |-> [email |-> TRUE, physicalAddress |-> FALSE, onchainAddress |-> FALSE,
               phoneNumber |-> TRUE, name |-> TRUE]],
    [name |-> "Test Case #7",
     data |-> [email |-> FALSE, physicalAddress |-> TRUE, onchainAddress |-> FALSE,
               phoneNumber |-> FALSE, name |-> TRUE]]>>

(* window.location.origin of the page.                                     *)
WindowLocationOrigin == "https://playground.example"

(* The values of process.env.NEXT_PUBLIC_CALLBACK_BASE_URL.                *)
CallbackBaseUrls == {Undefined, Str("https://callback.example")}

(* The object useWalletClient yields once the client is loaded.            *)
WalletClient == Obj("transport" :> Str("custom"))

(* viem's numberToHex for a non-negative number.                           *)
HexDigit(d) == SubSeq("0123456789abcdef", d + 1, d + 1)

RECURSIVE HexDigits(_)
HexDigits(n) ==
  IF n < 16 THEN HexDigit(n) ELSE HexDigits(n \div 16) \o HexDigit(n % 16)

numberToHex(n) == "0x" \o HexDigits(n)

(* encodeFunctionData for transfer(0xd8da...6045, 10000): selector, then   *)
(* the two arguments padded to 32 bytes.                                   *)
TransferData ==
  "0xa9059cbb"
    \o "000000000000000000000000d8da6bf26964af9d7eed9e03e53415d37aa96045"
    \o "0000000000000000000000000000000000000000000000000000000000002710"

(* addLog entries: the data is the template literal, part by part.         *)
LogEntry(type, data) == [type |-> type, data |-> data]

displayIsConnected == isConnected

displayChainId == chainId

(* Mutant: only Base counts as supported.                                  *)
currentChainSupportedBaseOnly ==
  IF Truthy(displayChainId) THEN displayChainId.n = 8453 ELSE FALSE

currentChainSupported ==
  IF Truthy(displayChainId)
  THEN displayChainId.n \in DOMAIN CHAIN_TO_USDC_ADDRESS
  ELSE FALSE

currentChainName ==
  IF Truthy(displayChainId)
  THEN IF displayChainId.n \in DOMAIN CHAIN_NAMES
       THEN Str(CHAIN_NAMES[displayChainId.n])
       ELSE Undefined
  ELSE Str("Unknown")

(* Object.entries(dataRequests).filter(...).map(([field]) => field).       *)
ActiveRequests(requested) == SelectSeq(Fields, LAMBDA field : requested[field])

(* Mutant: the empty selection is let through.                             *)
NoActiveRequestsNever(activeRequests) == FALSE

(* `activeRequests.length === 0`.                                          *)
NoActiveRequests(activeRequests) == Len(activeRequests) = 0

(* Mutant: every request is marked optional.                               *)
RequestsAllOptional(activeRequests, optional) ==
  [i \in 1..Len(activeRequests) |->
     Obj(("type" :> Str(activeRequests[i])) @@ ("optional" :> Bool(TRUE)))]

(* activeRequests.map(field => ({type: field, optional:                    *)
(* dataOptional[field]})).                                                 *)
Requests(activeRequests, optional) ==
  [i \in 1..Len(activeRequests) |->
     Obj(("type" :> Str(activeRequests[i])) @@
         ("optional" :> Bool(optional[activeRequests[i]])))]

(* Mutant: the base is always the page origin.                             *)
CallbackURLOriginOnly(enabled, baseUrl) ==
  IF enabled
  THEN Str(WindowLocationOrigin \o "/api/data-callback")
  ELSE Undefined

(* `callbackEnabled ? `${NEXT_PUBLIC_CALLBACK_BASE_URL ||                  *)
(* window.location.origin}/api/data-callback` : undefined`.                *)
CallbackURL(enabled, baseUrl) ==
  IF enabled
  THEN Str((IF Truthy(baseUrl) THEN baseUrl.s ELSE WindowLocationOrigin)
             \o "/api/data-callback")
  ELSE Undefined

(* `{requests, ...(callbackEnabled && callbackURL && {callbackURL})}`.     *)
DataCallbackCapability(requests, enabled, callbackURL) ==
  MkObj(("requests" :> Arr(requests)) @@
        ("callbackURL" :> IF enabled /\ Truthy(callbackURL)
                          THEN callbackURL ELSE Undefined))

(* The chain id and the USDC contract of the call: the wallet's chain in   *)
(* DataCallback.tsx, Base Sepolia and a fixed contract in part_006.        *)
CallChainId == IF component = "DataCallback.tsx" THEN displayChainId.n ELSE 84532

UsdcAddress ==
  IF component = "DataCallback.tsx"
  THEN CHAIN_TO_USDC_ADDRESS[displayChainId.n]
  ELSE "0x833589fCD6eDb6E08f4c7C32D4f71b54bdA02913"

SendCallsParams(capability) ==
  Arr(<<Obj(("version" :> Str("1.0")) @@
            ("chainId" :> Str(numberToHex(CallChainId))) @@
            ("calls" :> Arr(<<Obj(("to" :> Str(UsdcAddress)) @@
                                  ("data" :> Str(TransferData)))>>)) @@
            ("capabilities" :> Obj("dataCallback" :> capability)))>>)

WalletRequest(method, params) == [method |-> method, params |-> params]

(* The early returns of handleSubmitTransaction, in the order of the code: *)
(* the guard that rejects the submit, "none" when the submit goes on.      *)
SubmitGuard ==
  CASE ~displayIsConnected \/ ~Truthy(walletClient) -> "wallet"
    [] component = "DataCallback.tsx"
         /\ (~currentChainSupported \/ ~Truthy(displayChainId)) -> "chain"
    [] NoActiveRequests(ActiveRequests(dataRequests)) -> "requests"
    [] OTHER -> "none"

(* The error logged by each early return.                                  *)
GuardLog(guard) ==
  CASE guard = "wallet" ->
         LogEntry("error", <<Str("Please connect your wallet first")>>)
    [] guard = "chain" ->
         LogEntry("error", <<Str("Data callback not supported on "), currentChainName,
                             Str(". Please switch to Base or Base Sepolia.")>>)
    [] guard = "requests" ->
         LogEntry("error", <<Str("Please select at least one data request")>>)

(* The messages logged between the guards and the wallet request.          *)
SubmitLogs(requests, callbackURL, capability) ==
  <<LogEntry("message",
             IF component = "DataCallback.tsx"
             THEN <<Str("Submitting transaction on "), currentChainName,
                    Str(" with data callback requests: "), Arr(requests)>>
             ELSE <<Str("Submitting transaction with data callback requests: "),
                    Arr(requests)>>)>>
  \o (IF callbackEnabled /\ Truthy(callbackURL)
      THEN <<LogEntry("message", <<Str("Using callback URL: "), callbackURL>>)>>
      ELSE <<>>)
  \o <<LogEntry("message",
                <<Str("Sending wallet_sendCalls with capabilities: "), capability>>)>>

----------------------------------------------------------------------------
(* The component on a hydrated page.  The account, the wallet client, the  *)
(* chain and the environment are fixed for a run; handler, logged and      *)
(* walletRequests hold the handler that ran last, the entries it logged    *)
(* and the requests it handed to the wallet.                               *)
clientEnv == <<component, isConnected, walletClient, chainId, callbackBaseUrl>>

InitClient ==
  /\ route = "route.ts"
  /\ request = Undefined
  /\ response = NoResponse
  /\ invocations = <<>>
  /\ clock = 0
  /\ nodeEnv = Undefined
  /\ component \in Components
  /\ isConnected \in BOOLEAN
  /\ walletClient \in (IF isConnected THEN {Undefined, WalletClient} ELSE {Undefined})
  /\ chainId \in (IF component = "DataCallback.tsx"
                  THEN {Num(n) : n \in WalletChains}
                  ELSE {Undefined})
  /\ callbackBaseUrl \in CallbackBaseUrls
  /\ Mounted
  /\ PagesMounted

(* The form, and with it every control, is rendered for a connected        *)
(* account only.                                                           *)
FormRendered == displayIsConnected

handleDataRequestToggle(field) ==
  /\ FormRendered
  /\ dataRequests' = [dataRequests EXCEPT ![field] = ~@]
  /\ handler' = "handleDataRequestToggle"
  /\ logged' = <<>>
  /\ walletRequests' = <<>>
  /\ UNCHANGED <<dataOptional, callbackEnabled, isPending, callsId, sendCallsError>>
  /\ UNCHANGED <<serverVars, clientEnv, pageVars>>

handleOptionalToggle(field) ==
  /\ FormRendered
  /\ dataOptional' = [dataOptional EXCEPT ![field] = ~@]
  /\ handler' = "handleOptionalToggle"
  /\ logged' = <<>>
  /\ walletRequests' = <<>>
  /\ UNCHANGED <<dataRequests, callbackEnabled, isPending, callsId, sendCallsError>>
  /\ UNCHANGED <<serverVars, clientEnv, pageVars>>

(* Mutant: loading a test case also resets the optional flags.            *)
handleLoadTestCaseResetsOptional(testCase) ==
  /\ FormRendered
  /\ dataRequests' = testCase.data
  /\ dataOptional' = [field \in FieldSet |-> FALSE]
  /\ handler' = "handleLoadTestCase"
  /\ logged' = <<LogEntry("message",
                          <<Str("Loaded "), Str(testCase.name),
                            Str(" with data requests: "),
                            Arr([i \in 1..Len(ActiveRequests(testCase.data)) |->
                                   Str(ActiveRequests(testCase.data)[i])])>>)>>
  /\ walletRequests' = <<>>
  /\ UNCHANGED <<callbackEnabled, isPending, callsId, sendCallsError>>
  /\ UNCHANGED <<serverVars, clientEnv, pageVars>>

handleLoadTestCase(testCase) ==
  /\ FormRendered
  /\ dataRequests' = testCase.data
  /\ handler' = "handleLoadTestCase"
  /\ logged' = <<LogEntry("message",
                          <<Str("Loaded "), Str(testCase.name),
                            Str(" with data requests: "),
                            Arr([i \in 1..Len(ActiveRequests(testCase.data)) |->
                                   Str(ActiveRequests(testCase.data)[i])])>>)>>
  /\ walletRequests' = <<>>
  /\ UNCHANGED <<dataOptional, callbackEnabled, isPending, callsId, sendCallsError>>
  /\ UNCHANGED <<serverVars, clientEnv, pageVars>>

handleClearAll ==
  /\ FormRendered
  /\ dataRequests' = [field \in FieldSet |-> FALSE]
  /\ dataOptional' = [field \in FieldSet |-> FALSE]
  /\ handler' = "handleClearAll"
  /\ logged' = <<LogEntry("message", <<Str("Cleared all data requests")>>)>>
  /\ walletRequests' = <<>>
  /\ UNCHANGED <<callbackEnabled, isPending, callsId, sendCallsError>>
  /\ UNCHANGED <<serverVars, clientEnv, pageVars>>

(* The "Enable Callback" checkbox: onChange carries the negated value.     *)
setCallbackEnabled ==
  /\ FormRendered
  /\ callbackEnabled' = ~callbackEnabled
  /\ handler' = "setCallbackEnabled"
  /\ logged' = <<>>
  /\ walletRequests' = <<>>
  /\ UNCHANGED <<dataRequests, dataOptional, isPending, callsId, sendCallsError>>
  /\ UNCHANGED <<serverVars, clientEnv, pageVars>>

(* handleSubmitTransaction up to `await walletClient.request(...)`.  The   *)
(* Submit button is disabled while isPending.                              *)
handleSubmitTransaction ==
  /\ FormRendered
  /\ ~isPending
  /\ handler' = "handleSubmitTransaction"
  /\ LET guard == SubmitGuard
         requests == Requests(ActiveRequests(dataRequests), dataOptional)
         callbackURL == CallbackURL(callbackEnabled, callbackBaseUrl)
         capability == DataCallbackCapability(requests, callbackEnabled, callbackURL)
     IN  IF guard # "none"
         THEN /\ logged' = <<GuardLog(guard)>>
              /\ walletRequests' = <<>>
              /\ UNCHANGED <<isPending, sendCallsError>>
         ELSE /\ isPending' = TRUE
              /\ sendCallsError' = Null
              /\ logged' = SubmitLogs(requests, callbackURL, capability)
              /\ walletRequests' =
                   <<WalletRequest("wallet_sendCalls", SendCallsParams(capability))>>
  /\ UNCHANGED <<dataRequests, dataOptional, callbackEnabled, callsId>>
  /\ UNCHANGED <<serverVars, clientEnv, pageVars>>

(* What the wallet answers, and the errors it rejects with.                *)
WalletResponses == {Str("0xa1")}

WalletErrors == {[k |-> "error", message |-> "User rejected the request"]}

(* JSON.stringify of a string.                                             *)
StringifyString(v) == Str("\"" \o v.s \o "\"")

(* handleSubmitTransaction after the await, the request resolved:          *)
(* setCallsId, the log, finally setIsPending(false); then the effect on    *)
(* callsId, which runs when callsId changed.                               *)
RequestResolved(walletResponse) ==
  /\ isPending
  /\ callsId' = StringifyString(walletResponse)
  /\ isPending' = FALSE
  /\ handler' = "handleSubmitTransaction.resolved"
  /\ logged' =
       <<LogEntry("message",
                  <<Str("Transaction submitted successfully! Response: "),
                    walletResponse>>)>>
       \o (IF callsId' # callsId /\ Truthy(callsId')
           THEN <<LogEntry("message",
                           <<Str("Data callback transaction initiated with response: "),
                             callsId'>>)>>
           ELSE <<>>)
  /\ walletRequests' = <<>>
  /\ UNCHANGED <<dataRequests, dataOptional, callbackEnabled, sendCallsError>>
  /\ UNCHANGED <<serverVars, clientEnv, pageVars>>

(* Mutant: no finally clause after a rejection, isPending stays set.       *)
RequestRejectedStaysPending(error) ==
  /\ isPending
  /\ sendCallsError' = error
  /\ handler' = "handleSubmitTransaction.rejected"
  /\ logged' =
       <<LogEntry("error",
                  <<Str("Failed to submit data callback transaction: "),
                    Str(error.message)>>),
         LogEntry("error",
                  <<Str("Data callback transaction failed: "), Str(error.message)>>)>>
  /\ walletRequests' = <<>>
  /\ UNCHANGED <<dataRequests, dataOptional, callbackEnabled, callsId, isPending>>
  /\ UNCHANGED <<serverVars, clientEnv, pageVars>>

(* handleSubmitTransaction after the await, the request rejected: the      *)
(* catch clause, finally setIsPending(false); then the effect on           *)
(* sendCallsError.                                                         *)
RequestRejected(error) ==
  /\ isPending
  /\ sendCallsError' = error
  /\ isPending' = FALSE
  /\ handler' = "handleSubmitTransaction.rejected"
  /\ logged' =
       <<LogEntry("error",
                  <<Str("Failed to submit data callback transaction: "),
                    Str(error.message)>>),
         LogEntry("error",
                  <<Str("Data callback transaction failed: "), Str(error.message)>>)>>
  /\ walletRequests' = <<>>
  /\ UNCHANGED <<dataRequests, dataOptional, callbackEnabled, callsId>>
  /\ UNCHANGED <<serverVars, clientEnv, pageVars>>

NextClient ==
  \/ \E field \in FieldSet : handleDataRequestToggle(field)
  \/ \E field \in FieldSet : handleOptionalToggle(field)
  \/ \E i \in 1..Len(TEST_CASES) : handleLoadTestCase(TEST_CASES[i])
  \/ handleClearAll
  \/ setCallbackEnabled
  \/ handleSubmitTransaction
  \/ \E walletResponse \in WalletResponses : RequestResolved(walletResponse)
  \/ \E error \in WalletErrors : RequestRejected(error)

SpecClient == InitClient /\ [][NextClient]_vars

----------------------------------------------------------------------------
(* The claims about the request builder.                                   *)
Submitted == handler = "handleSubmitTransaction"

NoFieldSelected == \A field \in FieldSet : ~dataRequests[field]

WalletAvailable == isConnected /\ walletClient # Undefined

(* The submit passes the chain check: part_006 has none, DataCallback.tsx  *)
(* wants Base or Base Sepolia.                                             *)
ChainAccepted ==
  \/ component = "part_006"
  \/ chainId.k = "number" /\ chainId.n \in {8453, 84532}

SelectFieldError ==
  LogEntry("error", <<Str("Please select at least one data request")>>)

SentSendCalls ==
  /\ Len(walletRequests) = 1
  /\ walletRequests[1].method = "wallet_sendCalls"

(* capabilities.dataCallback of the request handed to the wallet.          *)
SentCapability ==
  walletRequests[1].params.items[1].f["capabilities"].f["dataCallback"]

(* C15 as stated, for a connected wallet whose client is available: a     *)
(* submit with no field selected logs 'Please select at least one data     *)
(* request', issues no wallet request and leaves isPending unchanged.      *)
C15_EmptySelectionRejected ==
  [][(handler' = "handleSubmitTransaction" /\ WalletAvailable /\ NoFieldSelected) =>
       /\ logged' = <<SelectFieldError>>
       /\ walletRequests' = <<>>
       /\ isPending' = isPending]_vars

(* C15, amended: a submit with no field selected logs exactly one error,   *)
(* issues no wallet request and leaves isPending unchanged; the error is   *)
(* 'Please select at least one data request' when the wallet client is     *)
(* available and the chain check passes, the error of the earlier guard    *)
(* otherwise.                                                              *)
C15_EmptySelectionRejectedLocally ==
  [][(handler' = "handleSubmitTransaction" /\ NoFieldSelected) =>
       /\ Len(logged') = 1
       /\ logged'[1].type = "error"
       /\ (WalletAvailable /\ ChainAccepted) <=> logged' = <<SelectFieldError>>
       /\ walletRequests' = <<>>
       /\ isPending' = isPending]_vars

C15_Witness ==
  /\ Submitted
  /\ NoFieldSelected
  /\ logged = <<SelectFieldError>>
  /\ walletRequests = <<>>

(* C16 as stated: with a connected wallet, every submit with at least one  *)
(* field selected hands a wallet_sendCalls request to the wallet.          *)
C16_OnlyValidationIsSelection ==
  (Submitted /\ WalletAvailable /\ ~NoFieldSelected) => SentSendCalls

(* C16, amended: with a connected wallet, a submit with at least one field *)
(* selected hands a wallet_sendCalls request to the wallet exactly when    *)
(* the chain check passes: always in part_006, on Base and Base Sepolia in *)
(* DataCallback.tsx, which rejects the submit on any other chain with one  *)
(* error log and no request.                                               *)
C16_SelectionAndChainAreTheValidation ==
  (Submitted /\ WalletAvailable /\ ~NoFieldSelected) =>
    IF ChainAccepted
    THEN SentSendCalls
    ELSE /\ walletRequests = <<>>
         /\ Len(logged) = 1
         /\ logged[1].type = "error"
         /\ ~isPending

C16_Witness ==
  /\ Submitted
  /\ component = "DataCallback.tsx"
  /\ chainId = Num(84532)
  /\ ~NoFieldSelected
  /\ SentSendCalls
  /\ isPending

(* C17: the capability handed to the wallet has a callbackURL key exactly  *)
(* when the callback is enabled at submit time, and then its value is the  *)
(* base followed by /api/data-callback, the base being                     *)
(* NEXT_PUBLIC_CALLBACK_BASE_URL when set and the page origin otherwise.   *)
C17_CallbackURLIffEnabled ==
  (Submitted /\ SentSendCalls) =>
    /\ "callbackURL" \in DOMAIN SentCapability.f <=> callbackEnabled
    /\ callbackEnabled =>
         SentCapability.f["callbackURL"] =
           Str((IF callbackBaseUrl = Undefined
                THEN WindowLocationOrigin
                ELSE callbackBaseUrl.s) \o "/api/data-callback")

C17_Witness ==
  /\ Submitted
  /\ SentSendCalls
  /\ callbackEnabled
  /\ callbackBaseUrl # Undefined
  /\ "callbackURL" \in DOMAIN SentCapability.f

(* C18: the requests list handed to the wallet has exactly one entry       *)
(* {type, optional} for each selected field and none for the others, and   *)
(* the entry's optional is the optional flag of its own field.             *)
C18_OneRequestPerSelectedField ==
  (Submitted /\ SentSendCalls) =>
    LET requests == SentCapability.f["requests"].items IN
    /\ \A field \in FieldSet :
         Cardinality({i \in 1..Len(requests) : requests[i].f["type"] = Str(field)})
           = IF dataRequests[field] THEN 1 ELSE 0
    /\ \A i \in 1..Len(requests) :
         /\ DOMAIN requests[i].f = {"type", "optional"}
         /\ \E field \in FieldSet :
              /\ requests[i].f["type"] = Str(field)
              /\ requests[i].f["optional"] = Bool(dataOptional[field])

C18_Witness ==
  /\ Submitted
  /\ SentSendCalls
  /\ Len(SentCapability.f["requests"].items) = 2
  /\ dataRequests["name"] /\ ~dataOptional["name"]
  /\ dataRequests["phoneNumber"] /\ dataOptional["phoneNumber"]
  /\ ~dataRequests["email"] /\ dataOptional["email"]

----------------------------------------------------------------------------
(* The body is {errors: {server: ...}} and nothing else.                   *)
ServerErrorOnly(resp) ==
  /\ TopLevelKeys(resp) = {"errors"}
  /\ At(resp.body, <<"errors">>).k = "object"
  /\ DOMAIN At(resp.body, <<"errors">>).f = {"server"}

FieldErrorKeys == {"email", "physicalAddress", "name", "phoneNumber", "onchainAddress"}

(* C24: in route.ts a request without (truthy) calls, chainId or version,  *)
(* or without capabilities.dataCallback, is answered with                  *)
(* {errors: {server: ...}} only, whatever its requestedInfo; and no        *)
(* response has errors.server next to the error key of a field.            *)
C24_StructuralRejectionFirst ==
  (Responded /\ route = "route.ts") =>
    /\ (~RequiredFieldsPresent(request) \/ ~DataCallbackPresent(request))
         => ServerErrorOnly(response)
    /\ Has(response.body, <<"errors", "server">>)
         => DOMAIN At(response.body, <<"errors">>).f \cap FieldErrorKeys = {}

C24_Witness ==
  /\ Responded
  /\ route = "route.ts"
  /\ ~Has(request, <<"calls">>)
  /\ EmailRuleViolated(request)
  /\ PostalRuleViolated(request)
  /\ response.body = Obj("errors" :> Obj("server" :> Str("Missing required fields")))

----------------------------------------------------------------------------
CorsHeaders ==
  ("Access-Control-Allow-Origin" :> "*") @@
  ("Access-Control-Allow-Methods" :> "GET, POST, OPTIONS") @@
  ("Access-Control-Allow-Headers" :> "Content-Type, Authorization")

RespondedBy(i, rt, method) ==
  /\ invocations[i].route = rt
  /\ invocations[i].method = method
  /\ invocations[i].pc = "responded"

----------------------------------------------------------------------------
(* C25: a submit that passes the guards sets isPending; the resolution of  *)
(* the wallet request sets callsId and clears isPending, its rejection     *)
(* sets sendCallsError and clears isPending, so isPending is false after   *)
(* every completed submission; a submit stopped by a guard leaves          *)
(* isPending as it was.                                                    *)
C25_PendingClearedOnCompletion ==
  /\ [](handler \in {"handleSubmitTransaction.resolved",
                     "handleSubmitTransaction.rejected"} => ~isPending)
  /\ [][/\ handler' = "handleSubmitTransaction"
           => IF walletRequests' = <<>>
              THEN isPending' = isPending
              ELSE ~isPending /\ isPending'
        /\ handler' = "handleSubmitTransaction.resolved"
           => isPending /\ ~isPending' /\ callsId' \in {StringifyString(r) : r \in WalletResponses}
        /\ handler' = "handleSubmitTransaction.rejected"
           => isPending /\ ~isPending' /\ sendCallsError' \in WalletErrors]_vars

C25_Witness ==
  /\ handler = "handleSubmitTransaction.rejected"
  /\ ~isPending
  /\ sendCallsError \in WalletErrors
  /\ callsId # Null

(* The two maps differ at the named field and nowhere else.                *)
FlippedAt(before, after, field) ==
  /\ after[field] = ~before[field]
  /\ \A other \in FieldSet \ {field} : after[other] = before[other]

(* C27: handleLoadTestCase replaces dataRequests by the selection of a     *)
(* test case and leaves dataOptional and callbackEnabled alone;            *)
(* handleClearAll sets every entry of dataRequests and dataOptional to     *)
(* false; each toggle flips the named field of its own map only.           *)
C27_HandlerFrames ==
  [][/\ handler' = "handleLoadTestCase"
        => /\ \E i \in 1..Len(TEST_CASES) : dataRequests' = TEST_CASES[i].data
           /\ UNCHANGED <<dataOptional, callbackEnabled>>
     /\ handler' = "handleClearAll"
        => /\ \A field \in FieldSet : ~dataRequests'[field] /\ ~dataOptional'[field]
           /\ UNCHANGED callbackEnabled
     /\ handler' = "handleDataRequestToggle"
        => /\ \E field \in FieldSet : FlippedAt(dataRequests, dataRequests', field)
           /\ UNCHANGED <<dataOptional, callbackEnabled>>
     /\ handler' = "handleOptionalToggle"
        => /\ \E field \in FieldSet : FlippedAt(dataOptional, dataOptional', field)
           /\ UNCHANGED <<dataRequests, callbackEnabled>>]_vars

C27_Witness ==
  /\ handler = "handleLoadTestCase"
  /\ dataRequests = TEST_CASES[5].data
  /\ dataOptional["email"] /\ ~dataOptional["onchainAddress"]
  /\ callbackEnabled

----------------------------------------------------------------------------
(* SubAccountManager (src/unnamed/part_009): sub accounts and the spend    *)
(* permission.  A handler runs up to its next await in one step; the       *)
(* wallet then resolves or rejects the request it waits on.  subAccountOp  *)
(* is the invocation that holds loadingSubAccount, spendOp the             *)
(* transactWithSpendPermission invocation that holds                       *)
(* loadingSpendPermission; a Button with isLoading set is disabled.        *)
SubAccountAddresses == {Str(numberToHex(160 + n)) : n \in 1..MaxSubAccounts}

ETH_TOKEN_ADDRESS == "0xEeeeeEeeeEeEeeEeEeEeeEEEeeeeEeeeeeeeEEeE"

(* The permission requestSpendPermission resolves with.                    *)
SpendPermission(spender) == [spender |-> spender, token |-> ETH_TOKEN_ADDRESS]

Op(name, pc) == [name |-> name, pc |-> pc, newSubAccount |-> Null]

InitSubAccounts ==
  /\ route = "route.ts"
  /\ request = Undefined
  /\ response = NoResponse
  /\ invocations = <<>>
  /\ clock = 0
  /\ nodeEnv = Undefined
  /\ component = "DataCallback.tsx"
  /\ isConnected = TRUE
  /\ walletClient = WalletClient
  /\ chainId \in {Num(8453), Num(84532)}
  /\ callbackBaseUrl = Undefined
  /\ Mounted
  /\ PagesMounted

(* The first effect, initializeSDK, then the effect on the connection.     *)
initializeSDK ==
  /\ provider = Null
  /\ provider' = Str("provider")
  /\ status' = "Ready to create sub account"
  /\ UNCHANGED <<subAccount, spendPermission, loadingSubAccount,
                 loadingSpendPermission, subAccountOp, spendOp>>
  /\ UNCHANGED notSubAccountVars

(* The buttons are rendered for a connected account.                       *)
connected == isConnected

(* "Create Sub Account (No Spend Limit)", up to the first await.           *)
createSubAccount ==
  /\ connected /\ subAccount = Null /\ ~loadingSubAccount
  /\ IF provider = Null
     THEN /\ status' = "Provider not initialized"
          /\ UNCHANGED <<loadingSubAccount, subAccountOp>>
     ELSE /\ loadingSubAccount' = TRUE
          /\ status' = "Creating Sub Account..."
          /\ subAccountOp' = Op("createSubAccount", "eth_requestAccounts")
  /\ UNCHANGED <<provider, subAccount, spendPermission, loadingSpendPermission, spendOp>>
  /\ UNCHANGED notSubAccountVars

(* "Create Another Sub Account", up to the first await: the sub account    *)
(* is cleared before the wallet is asked.                                  *)
createNewSubAccountForCurrentChain ==
  /\ connected /\ subAccount # Null /\ ~loadingSubAccount
  /\ IF provider = Null
     THEN /\ status' = "Provider not initialized"
          /\ UNCHANGED <<loadingSubAccount, subAccountOp, subAccount>>
     ELSE /\ loadingSubAccount' = TRUE
          /\ status' = "Creating new Sub Account..."
          /\ subAccount' = Null
          /\ subAccountOp' = Op("createNewSubAccountForCurrentChain", "eth_requestAccounts")
  /\ UNCHANGED <<provider, spendPermission, loadingSpendPermission, spendOp>>
  /\ UNCHANGED notSubAccountVars

(* "Create Sub Account with Spend Permission", up to the first await.      *)
createSubAccountWithSpendPermission ==
  /\ connected /\ subAccount = Null
  /\ ~loadingSubAccount /\ ~loadingSpendPermission
  /\ IF provider = Null
     THEN /\ status' = "Provider not initialized"
          /\ UNCHANGED <<loadingSubAccount, loadingSpendPermission, subAccountOp>>
     ELSE /\ loadingSubAccount' = TRUE
          /\ loadingSpendPermission' = TRUE
          /\ status' = "Creating Sub Account with Spend Permission..."
          /\ subAccountOp' = Op("createSubAccountWithSpendPermission", "eth_requestAccounts")
  /\ UNCHANGED <<provider, subAccount, spendPermission, spendOp>>
  /\ UNCHANGED notSubAccountVars

CreateOps ==
  {"createSubAccount", "createNewSubAccountForCurrentChain",
   "createSubAccountWithSpendPermission"}

(* eth_requestAccounts resolves: the handler asks for the sub account.     *)
AccountsRequested ==
  /\ subAccountOp.name \in CreateOps
  /\ subAccountOp.pc = "eth_requestAccounts"
  /\ subAccountOp' = [subAccountOp EXCEPT !.pc = "wallet_addSubAccount"]
  /\ UNCHANGED <<provider, subAccount, spendPermission, loadingSubAccount,
                 loadingSpendPermission, status, spendOp>>
  /\ UNCHANGED notSubAccountVars

(* wallet_addSubAccount resolves with a sub account: setSubAccount; the    *)
(* two plain creations end here, the creation with spend permission goes   *)
(* on to requestSpendPermission with the new sub account as spender.       *)
SubAccountAdded(address) ==
  /\ subAccountOp.name \in CreateOps
  /\ subAccountOp.pc = "wallet_addSubAccount"
  /\ subAccount' = [address |-> address]
  /\ IF subAccountOp.name = "createSubAccountWithSpendPermission"
     THEN /\ status' = "Sub Account created! Now requesting spend permission..."
          /\ subAccountOp' = [subAccountOp EXCEPT !.pc = "requestSpendPermission",
                                                  !.newSubAccount = address]
          /\ UNCHANGED loadingSubAccount
     ELSE /\ status' = "Sub Account created"
          /\ subAccountOp' = NoOp
          /\ loadingSubAccount' = FALSE
  /\ UNCHANGED <<provider, spendPermission, loadingSpendPermission, spendOp>>
  /\ UNCHANGED notSubAccountVars

(* requestSpendPermission resolves: setSpendPermission, then the finally   *)
(* clause.                                                                 *)
SpendPermissionGranted ==
  /\ subAccountOp.name = "createSubAccountWithSpendPermission"
  /\ subAccountOp.pc = "requestSpendPermission"
  /\ spendPermission' = SpendPermission(subAccountOp.newSubAccount)
  /\ status' = "Sub Account created with Spend Permission! Ready to transact."
  /\ loadingSubAccount' = FALSE
  /\ loadingSpendPermission' = FALSE
  /\ subAccountOp' = NoOp
  /\ UNCHANGED <<provider, subAccount, spendOp>>
  /\ UNCHANGED notSubAccountVars

(* The request a creation waits on rejects: the catch clause of the        *)
(* handler, then its finally clause.  Only the creation with spend         *)
(* permission clears subAccount and spendPermission.                       *)
CreationRejected ==
  /\ subAccountOp.name \in CreateOps
  /\ IF subAccountOp.name = "createSubAccountWithSpendPermission"
     THEN /\ status' = "Creation failed: User rejected the request"
          /\ subAccount' = Null
          /\ spendPermission' = Null
          /\ loadingSpendPermission' = FALSE
     ELSE /\ status' = "Sub Account creation failed: User rejected the request"
          /\ UNCHANGED <<subAccount, spendPermission, loadingSpendPermission>>
  /\ loadingSubAccount' = FALSE
  /\ subAccountOp' = NoOp
  /\ UNCHANGED <<provider, spendOp>>
  /\ UNCHANGED notSubAccountVars

(* "Transact with Spend Permission", up to the first await.  The button is *)
(* rendered when subAccount and spendPermission are set.                   *)
transactWithSpendPermission ==
  /\ connected /\ subAccount # Null /\ spendPermission # Null
  /\ ~loadingSpendPermission
  /\ loadingSpendPermission' = TRUE
  /\ status' = "Transacting using Spend Permission..."
  /\ spendOp' = Op("transactWithSpendPermission", "prepareSpendCallData")
  /\ UNCHANGED <<provider, subAccount, spendPermission, loadingSubAccount, subAccountOp>>
  /\ UNCHANGED notSubAccountVars

(* prepareSpendCallData resolves: the handler sends wallet_sendCalls.      *)
SpendCallsPrepared ==
  /\ spendOp.pc = "prepareSpendCallData"
  /\ spendOp' = [spendOp EXCEPT !.pc = "wallet_sendCalls"]
  /\ UNCHANGED <<provider, subAccount, spendPermission, loadingSubAccount,
                 loadingSpendPermission, status, subAccountOp>>
  /\ UNCHANGED notSubAccountVars

(* wallet_sendCalls of the transaction resolves.                           *)
SpendCallsSent ==
  /\ spendOp.pc = "wallet_sendCalls"
  /\ status' = "Spend Permission transaction sent! Calls ID: 0xa1"
  /\ loadingSpendPermission' = FALSE
  /\ spendOp' = NoOp
  /\ UNCHANGED <<provider, subAccount, spendPermission, loadingSubAccount, subAccountOp>>
  /\ UNCHANGED notSubAccountVars

(* The request the transaction waits on rejects.                           *)
TransactRejected ==
  /\ spendOp.name = "transactWithSpendPermission"
  /\ status' = "Spend transaction failed: User rejected the request"
  /\ loadingSpendPermission' = FALSE
  /\ spendOp' = NoOp
  /\ UNCHANGED <<provider, subAccount, spendPermission, loadingSubAccount, subAccountOp>>
  /\ UNCHANGED notSubAccountVars

(* "Send Transaction (yoink)": sendCallsFromSubAccount and sendCalls up to *)
(* the await.  The button is rendered when there is no spend permission.   *)
sendCallsFromSubAccount ==
  /\ connected /\ subAccount # Null /\ spendPermission = Null
  /\ ~loadingSubAccount
  /\ loadingSubAccount' = TRUE
  /\ status' = "Sending calls..."
  /\ subAccountOp' = Op("sendCalls", "wallet_sendCalls")
  /\ UNCHANGED <<provider, subAccount, spendPermission, loadingSpendPermission, spendOp>>
  /\ UNCHANGED notSubAccountVars

(* wallet_sendCalls of sendCalls resolves or rejects.                      *)
CallsSent(ok) ==
  /\ subAccountOp.name = "sendCalls"
  /\ status' = IF ok THEN "Calls sent! Calls ID: 0xa1"
               ELSE "Send calls failed: User rejected the request"
  /\ loadingSubAccount' = FALSE
  /\ subAccountOp' = NoOp
  /\ UNCHANGED <<provider, subAccount, spendPermission, loadingSpendPermission, spendOp>>
  /\ UNCHANGED notSubAccountVars

(* "Complete Reset": the state is cleared and the page reloads, which      *)
(* drops every invocation in flight.                                       *)
CompleteReset ==
  /\ connected /\ subAccount # Null
  /\ provider' = Null
  /\ subAccount' = Null
  /\ spendPermission' = Null
  /\ status' = ""
  /\ loadingSubAccount' = FALSE
  /\ loadingSpendPermission' = FALSE
  /\ subAccountOp' = NoOp
  /\ spendOp' = NoOp
  /\ UNCHANGED notSubAccountVars

NextSubAccounts ==
  \/ initializeSDK
  \/ createSubAccount
  \/ createNewSubAccountForCurrentChain
  \/ createSubAccountWithSpendPermission
  \/ AccountsRequested
  \/ \E address \in SubAccountAddresses : SubAccountAdded(address)
  \/ SpendPermissionGranted
  \/ CreationRejected
  \/ transactWithSpendPermission
  \/ SpendCallsPrepared
  \/ SpendCallsSent
  \/ TransactRejected
  \/ sendCallsFromSubAccount
  \/ \E ok \in BOOLEAN : CallsSent(ok)
  \/ CompleteReset

SpecSubAccounts == InitSubAccounts /\ [][NextSubAccounts]_vars

(* C21: whenever spendPermission is set, subAccount is set and is the      *)
(* spender of the permission.  Stated for the states in which no creation  *)
(* is waiting on the wallet, so that a sub account cleared or replaced for *)
(* good is what violates it.                                               *)
C21_PermissionBelongsToSubAccount ==
  (spendPermission # Null /\ subAccountOp = NoOp) =>
    /\ subAccount # Null
    /\ subAccount.address = spendPermission.spender

----------------------------------------------------------------------------
(* PersonalSign (src/unnamed/part_002).  An edit of the message, the       *)
(* arrival of a signature and the rejection of a signing request are each  *)
(* one step, together with the effects React runs after the render they    *)
(* cause.  verifyCalls is a set: two pending calls with the same message   *)
(* and signature settle alike.                                             *)
(* The texts the textarea may hold.                                        *)
Messages == {"hello world", "hello world ", "gm", " gm", " ", ""}

(* String.prototype.trim for blanks.                                       *)
RECURSIVE TrimStart(_)
TrimStart(s) ==
  IF Len(s) > 0 /\ SubSeq(s, 1, 1) = " " THEN TrimStart(SubSeq(s, 2, Len(s))) ELSE s

RECURSIVE TrimEnd(_)
TrimEnd(s) ==
  IF Len(s) > 0 /\ SubSeq(s, Len(s), Len(s)) = " "
  THEN TrimEnd(SubSeq(s, 1, Len(s) - 1))
  ELSE s

Trim(s) == TrimEnd(TrimStart(s))

(* The signature the wallet produces for a message.                        *)
Signature(signed) == [k |-> "signature", signed |-> signed]

SignErrors == {[k |-> "error", message |-> "User rejected the request"]}

InitPersonalSign ==
  /\ route = "route.ts"
  /\ request = Undefined
  /\ response = NoResponse
  /\ invocations = <<>>
  /\ clock = 0
  /\ nodeEnv = Undefined
  /\ component = "DataCallback.tsx"
  /\ isConnected \in BOOLEAN
  /\ walletClient = Undefined
  /\ chainId = Num(8453)
  /\ callbackBaseUrl = Undefined
  /\ Mounted
  /\ PagesMounted

(* verifySignature as the render with the given message built it: nothing  *)
(* for an empty signature or a blank message, else one verifyMessage call  *)
(* with the trimmed message of that render.                                *)
verifySignature(sig, renderedMessage) ==
  IF ~Truthy(sig) \/ Trim(renderedMessage) = ""
  THEN {}
  ELSE {[message |-> Trim(renderedMessage), signature |-> sig]}

(* The signature effect: it runs when signature or verifySignature         *)
(* changed, with the signature of the render.                              *)
SignatureEffect(sig, renderedMessage) ==
  IF Truthy(sig) THEN verifySignature(sig, renderedMessage) ELSE {}

(* The textarea's onChange: setMessage, the render, then the reset effect  *)
(* (resetSignMessage unless the message is the initial one, which also     *)
(* detaches the request the wallet holds) and the signature effect, which  *)
(* runs again because verifySignature depends on message and still sees    *)
(* the signature of this render.                                           *)
setMessage(text) ==
  /\ isConnected
  /\ text # message
  /\ message' = text
  /\ verifyCalls' = verifyCalls \cup SignatureEffect(signature, text)
  /\ IF text # "hello world"
     THEN /\ signature' = Undefined
          /\ signError' = Null
          /\ isSigningMessage' = FALSE
          /\ signRequest' = Undefined
     ELSE UNCHANGED <<signature, signError, isSigningMessage, signRequest>>
  /\ UNCHANGED notSignVars

(* handlePersonalSign: signMessage with the trimmed message.  The button   *)
(* is disabled for a blank message and while a signing is pending.         *)
handlePersonalSign ==
  /\ isConnected
  /\ Trim(message) # ""
  /\ ~isSigningMessage
  /\ signRequest' = Str(Trim(message))
  /\ isSigningMessage' = TRUE
  /\ signature' = Undefined
  /\ signError' = Null
  /\ UNCHANGED <<message, verifyCalls>>
  /\ UNCHANGED notSignVars

(* The wallet signs: the mutation succeeds, and the signature effect       *)
(* verifies the new signature with the message of the render.              *)
SignatureArrives ==
  /\ signRequest # Undefined
  /\ signature' = Signature(signRequest.s)
  /\ isSigningMessage' = FALSE
  /\ signRequest' = Undefined
  /\ verifyCalls' = verifyCalls \cup SignatureEffect(signature', message)
  /\ UNCHANGED <<message, signError>>
  /\ UNCHANGED notSignVars

(* The wallet refuses: the mutation fails.                                 *)
SignRejected(error) ==
  /\ signRequest # Undefined
  /\ signError' = error
  /\ isSigningMessage' = FALSE
  /\ signRequest' = Undefined
  /\ UNCHANGED <<message, signature, verifyCalls>>
  /\ UNCHANGED notSignVars

(* publicClient.verifyMessage settles: verifySignature logs the verdict,   *)
(* or the failure in its catch clause.                                     *)
VerifyMessageSettles(call) ==
  /\ call \in verifyCalls
  /\ verifyCalls' = verifyCalls \ {call}
  /\ UNCHANGED <<message, signature, signError, isSigningMessage, signRequest>>
  /\ UNCHANGED notSignVars

NextPersonalSign ==
  \/ \E text \in Messages : setMessage(text)
  \/ handlePersonalSign
  \/ SignatureArrives
  \/ \E error \in SignErrors : SignRejected(error)
  \/ \E call \in verifyCalls : VerifyMessageSettles(call)

SpecPersonalSign == InitPersonalSign /\ [][NextPersonalSign]_vars

(* C22: every verifyMessage call verifies a signature against the trimmed  *)
(* message that was signed to produce it.                                  *)
C22_VerifiedAgainstSignedMessage ==
  \A call \in verifyCalls : call.message = call.signature.signed

----------------------------------------------------------------------------
(* The feature registry (src/lib/features/registry.ts), the page that      *)
(* resolves a path to a feature (src/app/[...feature]/page.tsx), and two   *)
(* of the features: SDKConfig over ConfigProvider, and the domain of       *)
(* SignTypedData.  A feature component is mounted while its page is        *)
(* rendered; its state is created when the page is rendered for its route. *)

(* Bound of the paths a page is loaded with: the segments of a path.       *)
MaxSegments == 3

Feature(id, title, featureRoute, category, componentName, priority) ==
  [id |-> id, title |-> title, route |-> featureRoute, category |-> category,
   component |-> componentName, enabled |-> Undefined,
   priority |-> Num(priority)]

FEATURES ==
  <<Feature("send-eth", "Send ETH", "/wallet/send-eth", "wallet", "SendETH", 1),
    Feature("send-usdc", "Send USDC", "/wallet/send-usdc", "wallet", "SendUSDC", 2),
    Feature("personal-sign", "Personal Sign", "/wallet/personal-sign", "wallet",
            "PersonalSign", 3),
    Feature("sign-typed-data", "Sign Typed Data", "/wallet/sign-typed-data",
            "wallet", "SignTypedData", 4),
    Feature("app-paymaster", "App Paymaster", "/wallet/paymaster", "wallet",
            "AppPaymaster", 5),
    Feature("data-callback", "Data Callback", "/wallet/data-callback", "wallet",
            "DataCallback", 6),
    Feature("sdk-config", "SDK Configuration", "/config/sdk", "config",
            "SDKConfig", 1),
    Feature("event-log", "Event Log", "/debug/events", "debugging", "EventLog", 1)>>

(* Array.prototype.find: the first element whose index is in the set of    *)
(* the indices that satisfy the test, or undefined.                        *)
Find(items, satisfying) ==
  IF satisfying = {} THEN Undefined
  ELSE items[CHOOSE i \in satisfying : \A j \in satisfying : i <= j]

getFeatureByRoutePrefix(featureRoute) ==
  Find(FEATURES,
       {i \in 1..Len(FEATURES) :
          /\ Len(FEATURES[i].route) >= Len(featureRoute)
          /\ SubSeq(FEATURES[i].route, 1, Len(featureRoute)) = featureRoute})

getFeatureByRoute(featureRoute) ==
  Find(FEATURES, {i \in 1..Len(FEATURES) : FEATURES[i].route = featureRoute})

(* a.priority || 0                                                         *)
PriorityOrZero(f) == IF f.priority = Undefined THEN 0 ELSE f.priority.n

(* Array.prototype.sort with the comparator of getNavigationStructure: a   *)
(* stable sort by ascending priority.                                      *)
RECURSIVE InsertByPriority(_, _)
InsertByPriority(f, sorted) ==
  IF sorted = <<>> THEN <<f>>
  ELSE IF PriorityOrZero(f) < PriorityOrZero(Head(sorted))
       THEN <<f>> \o sorted
       ELSE <<Head(sorted)>> \o InsertByPriority(f, Tail(sorted))

RECURSIVE SortByPriority(_)
SortByPriority(items) ==
  IF items = <<>> THEN <<>>
  ELSE InsertByPriority(items[Len(items)],
                        SortByPriority(SubSeq(items, 1, Len(items) - 1)))

(* category.charAt(0).toUpperCase() + category.slice(1)                    *)
ToUpperCase == ("c" :> "C") @@ ("w" :> "W") @@ ("d" :> "D")

DisplayName(category) ==
  ToUpperCase[SubSeq(category, 1, 1)] \o SubSeq(category, 2, Len(category))

getNavigationStructure ==
  LET categories == <<"config", "wallet", "debugging">>
      Listed(category) ==
        LET InCategory(f) == f.category = category /\ f.enabled # Bool(FALSE)
        IN  SortByPriority(SelectSeq(FEATURES, InCategory))
  IN  [i \in 1..Len(categories) |->
         [category |-> categories[i],
          displayName |-> DisplayName(categories[i]),
          features |-> Listed(categories[i])]]

(* Array.prototype.join                                                    *)
RECURSIVE Join(_, _)
Join(items, separator) ==
  IF items = <<>> THEN ""
  ELSE IF Len(items) = 1 THEN items[1]
  ELSE items[1] \o separator \o Join(Tail(items), separator)

NotFound == "notFound"

(* FeaturePage: the component rendered for the segments, or notFound().    *)
FeaturePage(segments) ==
  LET featureRoute == "/" \o Join(segments, "/")
      found == getFeatureByRoute(featureRoute)
  IN  IF found = Undefined THEN NotFound ELSE found.component

(* The segments the router hands to the page for the href of a link.       *)
RECURSIVE PathSegments(_)
PathSegments(href) ==
  LET RECURSIVE Segment(_)
      Segment(i) ==
        IF i > Len(href) \/ SubSeq(href, i, i) = "/" THEN i
        ELSE Segment(i + 1)
      end == Segment(1)
      rest == IF end > Len(href) THEN <<>>
              ELSE PathSegments(SubSeq(href, end + 1, Len(href)))
  IN  IF href = "" THEN <<>>
      ELSE IF end = 1 THEN rest
      ELSE <<SubSeq(href, 1, end - 1)>> \o rest

(* The segments of the paths a page is loaded with.                        *)
Segments ==
  UNION {{PathSegments(FEATURES[i].route)[j] :
            j \in 1..Len(PathSegments(FEATURES[i].route))} :
         i \in 1..Len(FEATURES)}

Paths == UNION {[1..n -> Segments] : n \in 1..MaxSegments}

----------------------------------------------------------------------------
(* ConfigProvider and the inputs of SDKConfig.                             *)
AppNames == {"Smart Wallet Playground", "USD Coin", "My App"}
AppLogoUrls == {"/favicon.ico", "https://example.com/logo.png"}

WALLET_URL_SHORTCUTS ==
  [keys |-> "https://keys.coinbase.com/connect",
   localhost |-> "http://localhost:3005/connect"]

WalletUrls == {WALLET_URL_SHORTCUTS.keys, WALLET_URL_SHORTCUTS.localhost, ""}

HasPendingChangesNameOnly(applied, staged) ==
  staged.appName # applied.appName

(* hasPendingChanges as a render of ConfigProvider computes it.            *)
HasPendingChanges(applied, staged) ==
  \/ staged.appName # applied.appName
  \/ staged.appLogoUrl # applied.appLogoUrl
  \/ staged.walletUrl # applied.walletUrl

Config(name, logoUrl, url) ==
  [appName |-> name, appLogoUrl |-> logoUrl, walletUrl |-> url]

(* The render of ConfigProvider after a setter of the staged values.       *)
Staged(name, logoUrl, url) ==
  /\ stagedAppName' = name
  /\ stagedAppLogoUrl' = logoUrl
  /\ stagedWalletUrl' = url
  /\ hasPendingChanges' =
       HasPendingChanges(Config(appName, appLogoUrl, walletUrl),
                         Config(name, logoUrl, url))
  /\ UNCHANGED <<appName, appLogoUrl, walletUrl>>
  /\ UNCHANGED <<feature, page, variant, domain, chainId>>
  /\ UNCHANGED notAppVars

(* The inputs of SDKConfig are rendered on its page.                       *)
SDKConfigRendered == page = "SDKConfig"

setStagedAppName(name) ==
  /\ handler' = "setStagedAppName"
  /\ SDKConfigRendered
  /\ Staged(name, stagedAppLogoUrl, stagedWalletUrl)

setStagedAppLogoUrl(url) ==
  /\ handler' = "setStagedAppLogoUrl"
  /\ SDKConfigRendered
  /\ Staged(stagedAppName, url, stagedWalletUrl)

setStagedWalletUrl(url) ==
  /\ handler' = "setStagedWalletUrl"
  /\ SDKConfigRendered
  /\ Staged(stagedAppName, stagedAppLogoUrl, url)

(* The Switch of SDKConfig.                                                *)
SwitchWalletUrl(checked) ==
  /\ handler' = "setStagedWalletUrl"
  /\ SDKConfigRendered
  /\ checked # (stagedWalletUrl = WALLET_URL_SHORTCUTS.localhost)
  /\ Staged(stagedAppName, stagedAppLogoUrl,
            IF checked THEN WALLET_URL_SHORTCUTS.localhost
            ELSE WALLET_URL_SHORTCUTS.keys)

(* The Apply Changes button, disabled without pending changes.             *)
applyChanges ==
  /\ handler' = "applyChanges"
  /\ SDKConfigRendered
  /\ hasPendingChanges
  /\ appName' = stagedAppName
  /\ appLogoUrl' = stagedAppLogoUrl
  /\ walletUrl' = stagedWalletUrl
  /\ hasPendingChanges' =
       HasPendingChanges(Config(stagedAppName, stagedAppLogoUrl, stagedWalletUrl),
                         Config(stagedAppName, stagedAppLogoUrl, stagedWalletUrl))
  /\ UNCHANGED <<stagedAppName, stagedAppLogoUrl, stagedWalletUrl>>
  /\ UNCHANGED <<feature, page, variant, domain, chainId>>
  /\ UNCHANGED notAppVars

----------------------------------------------------------------------------
(* SignTypedData: the domain.                                              *)
USDC_CONTRACT == "0xa0b86991c6218b36c1d19d4a2e9eb0ce3606eb48"

SPEND_PERMISSION_CONTRACT ==
  [part_007 |-> "0x0000000000000000000000000000000000000000",
   part_008 |-> "0xf85210B21cC50302F477BA56686d2019dC9b67Ad"]

Variants == {"part_007", "part_008"}

SHORTCUT_TEMPLATES ==
  {"EIP-3009 TransferWithAuthorization", "EIP-3009 ReceiveWithAuthorization",
   "Spend Permissions"}

(* What the user types into the Version and Verifying Contract inputs.     *)
DomainVersions == {"1", "2", ""}
VerifyingContracts == {USDC_CONTRACT, "0x"}

Domain(name, version, chain, verifyingContract) ==
  [name |-> name, version |-> version, chainId |-> chain,
   verifyingContract |-> verifyingContract]

SyncDomainNameOnly(prev, name, chain) ==
  IF prev.name = "USD Coin" \/ prev.name = "Spend Permission Manager"
  THEN prev
  ELSE [prev EXCEPT !.name = name, !.chainId = chain]

(* The updater of the sync effect.                                         *)
SyncDomain(prev, name, chain) ==
  IF prev.name = "USD Coin" \/ prev.name = "Spend Permission Manager"
  THEN [prev EXCEPT !.chainId = chain]
  ELSE [prev EXCEPT !.name = name, !.chainId = chain]

(* The domain of SignTypedData as the page rendered leaves it: the         *)
(* useState initial value and the sync effect of the mount, or no domain   *)
(* on the page of another feature.                                         *)
MountedDomain(rendered, name, chain) ==
  IF rendered = "SignTypedData"
  THEN SyncDomain(Domain(name, "2", chain, USDC_CONTRACT), name, chain)
  ELSE Undefined

SignTypedDataRendered == page = "SignTypedData"

startsWith(text, prefix) ==
  Len(text) >= Len(prefix) /\ SubSeq(text, 1, Len(prefix)) = prefix

loadShortcut(templateName) ==
  /\ handler' = "loadShortcut"
  /\ SignTypedDataRendered
  /\ domain' =
       IF templateName = "Spend Permissions"
       THEN Domain("Spend Permission Manager", "1", chainId,
                   SPEND_PERMISSION_CONTRACT[variant])
       ELSE IF startsWith(templateName, "EIP-3009")
       THEN Domain("USD Coin", "2", chainId, USDC_CONTRACT)
       ELSE domain
  /\ UNCHANGED <<configVars, feature, page, variant, chainId>>
  /\ UNCHANGED notAppVars

(* The Version input.                                                      *)
setVersion(version) ==
  /\ handler' = "setVersion"
  /\ SignTypedDataRendered
  /\ domain' = [domain EXCEPT !.version = version]
  /\ UNCHANGED <<configVars, feature, page, variant, chainId>>
  /\ UNCHANGED notAppVars

(* The Verifying Contract input.                                           *)
setVerifyingContract(address) ==
  /\ handler' = "setVerifyingContract"
  /\ SignTypedDataRendered
  /\ domain' = [domain EXCEPT !.verifyingContract = address]
  /\ UNCHANGED <<configVars, feature, page, variant, chainId>>
  /\ UNCHANGED notAppVars

(* The wallet switches to another chain of the wagmi configuration: the    *)
(* render with the new useChainId() and, on the page of SignTypedData, the *)
(* sync effect.                                                            *)
ChainChanged(chain) ==
  /\ handler' = "useChainId"
  /\ chainId # Num(chain)
  /\ chainId' = Num(chain)
  /\ domain' = IF SignTypedDataRendered
               THEN SyncDomain(domain, appName, Num(chain))
               ELSE domain
  /\ UNCHANGED <<configVars, feature, page, variant>>
  /\ UNCHANGED notAppVars

(* A link of the Sidebar to another page: FeaturePage renders the feature  *)
(* of the route and the component of the page before is unmounted.         *)
Link(f) ==
  /\ handler' = "FeaturePage"
  /\ PathSegments(f.route) # feature
  /\ feature' = PathSegments(f.route)
  /\ page' = FeaturePage(feature')
  /\ domain' = MountedDomain(page', appName, chainId)
  /\ UNCHANGED <<configVars, variant, chainId>>
  /\ UNCHANGED notAppVars

(* The features the Sidebar links to.                                      *)
NavigationFeatures ==
  UNION {{getNavigationStructure[c].features[i] :
            i \in 1..Len(getNavigationStructure[c].features)} :
         c \in 1..Len(getNavigationStructure)}

(* The page loaded at a path: the providers mount, FeaturePage renders.    *)
InitApp ==
  /\ route = "route.ts"
  /\ request = Undefined
  /\ response = NoResponse
  /\ invocations = <<>>
  /\ clock = 0
  /\ nodeEnv = Undefined
  /\ component = "DataCallback.tsx"
  /\ isConnected = TRUE
  /\ walletClient = Undefined
  /\ chainId \in {Num(c) : c \in WalletChains}
  /\ callbackBaseUrl = Undefined
  /\ Mounted
  /\ SubAccountManagerMounted
  /\ PersonalSignMounted
  /\ ConfigProviderMounted
  /\ feature \in Paths
  /\ page = FeaturePage(feature)
  /\ variant \in Variants
  /\ domain = MountedDomain(page, appName, chainId)

NextApp ==
  \/ \E name \in AppNames : setStagedAppName(name)
  \/ \E url \in AppLogoUrls : setStagedAppLogoUrl(url)
  \/ \E url \in WalletUrls : setStagedWalletUrl(url)
  \/ \E checked \in BOOLEAN : SwitchWalletUrl(checked)
  \/ applyChanges
  \/ \E templateName \in SHORTCUT_TEMPLATES : loadShortcut(templateName)
  \/ \E version \in DomainVersions : setVersion(version)
  \/ \E address \in VerifyingContracts : setVerifyingContract(address)
  \/ \E chain \in WalletChains : ChainChanged(chain)
  \/ \E f \in NavigationFeatures : Link(f)

SpecApp == InitApp /\ [][NextApp]_vars

----------------------------------------------------------------------------
(* ConfigProvider.                                                         *)
applied == <<appName, appLogoUrl, walletUrl>>

staged == <<stagedAppName, stagedAppLogoUrl, stagedWalletUrl>>

StagedSetters == {"setStagedAppName", "setStagedAppLogoUrl", "setStagedWalletUrl"}

(* C23: in ConfigProvider hasPendingChanges is true exactly when a staged  *)
(* value (app name, logo URL, wallet URL) differs from its applied value;  *)
(* a step that changes an applied value is a step of applyChanges, which   *)
(* sets each applied value to its staged value and leaves                  *)
(* hasPendingChanges false; a step of a staged setter leaves the applied   *)
(* values unchanged.                                                       *)
C23_PendingIffStagedDiffers ==
  /\ [](hasPendingChanges <=> (staged # applied))
  /\ [][/\ (applied' # applied) => handler' = "applyChanges"
        /\ (handler' = "applyChanges") =>
             /\ applied' = staged
             /\ staged' = staged
             /\ ~hasPendingChanges'
        /\ (handler' \in StagedSetters) => applied' = applied]_vars

(* Changes were applied and a logo URL was staged after them.              *)
C23_Witness ==
  /\ appName = "My App"
  /\ walletUrl = WALLET_URL_SHORTCUTS.localhost
  /\ stagedAppLogoUrl # appLogoUrl
  /\ stagedAppName = appName
  /\ hasPendingChanges

----------------------------------------------------------------------------
(* SignTypedData.                                                          *)
TemplateDomainNames == {"USD Coin", "Spend Permission Manager"}

DomainEdits == {"setVersion", "setVerifyingContract"}

(* C28: while SignTypedData is mounted and its sync effect has run, the    *)
(* chainId of the domain is the chain of the wallet (also after            *)
(* loadShortcut) and the name of the domain is the configured appName      *)
(* unless it is the name of a template domain; an edit of the version or   *)
(* of the verifying contract changes neither the name nor the chainId.     *)
C28_DomainFollowsWalletAndConfig ==
  /\ [](SignTypedDataRendered =>
          /\ domain.chainId = chainId
          /\ domain.name # appName => domain.name \in TemplateDomainNames)
  /\ [][(handler' \in DomainEdits) =>
          /\ domain'.name = domain.name
          /\ domain'.chainId = domain.chainId]_vars

(* A template was loaded, the wallet switched the chain and the version    *)
(* was edited, under an app name applied on the page of SDKConfig.         *)
C28_Witness ==
  /\ SignTypedDataRendered
  /\ appName = "My App"
  /\ domain.name = "Spend Permission Manager"
  /\ domain.version = "2"
  /\ domain.chainId = Num(1)
  /\ handler = "useChainId"

----------------------------------------------------------------------------
(* The feature registry.                                                   *)
WithRoute(featureRoute) ==
  {i \in 1..Len(FEATURES) : FEATURES[i].route = featureRoute}

Ascending(features) ==
  \A i, j \in 1..Len(features) :
    i < j => features[i].priority.n <= features[j].priority.n

(* C29: the routes of FEATURES are pairwise distinct; the page rendered    *)
(* for the segments is the component of the one feature whose route is     *)
(* '/' followed by the segments joined by '/', and notFound when no        *)
(* feature has that route; getNavigationStructure lists the categories     *)
(* config, wallet, debugging, each with its features that are not          *)
(* disabled in ascending priority, and every listed feature is what        *)
(* getFeatureByRoute returns for its route.                                *)
C29_RouteResolutionUnambiguous ==
  /\ \A i, j \in 1..Len(FEATURES) :
       FEATURES[i].route = FEATURES[j].route => i = j
  /\ LET path == "/" \o Join(feature, "/")
     IN  /\ \A i \in WithRoute(path) : page = FEATURES[i].component
         /\ WithRoute(path) = {} => page = NotFound
         /\ \A i \in 1..Len(FEATURES) :
              getFeatureByRoute(FEATURES[i].route) = FEATURES[i]
         /\ WithRoute(path) = {} => getFeatureByRoute(path) = Undefined
  /\ [c \in 1..Len(getNavigationStructure) |->
        getNavigationStructure[c].category] = <<"config", "wallet", "debugging">>
  /\ \A c \in 1..Len(getNavigationStructure) :
       LET entry == getNavigationStructure[c]
       IN  /\ Ascending(entry.features)
           /\ {entry.features[i] : i \in 1..Len(entry.features)} =
                {FEATURES[i] : i \in {j \in 1..Len(FEATURES) :
                    /\ FEATURES[j].category = entry.category
                    /\ FEATURES[j].enabled # Bool(FALSE)}}
           /\ \A i \in 1..Len(entry.features) :
                getFeatureByRoute(entry.features[i].route) = entry.features[i]

(* A path that is a prefix of routes renders notFound.                     *)
C29_Witness ==
  /\ feature = <<"wallet">>
  /\ page = NotFound

====
